---- MODULE Spec2Model ----
(***************************************************************************)
(* State-machine model of the realtime session coordinator of MTG          *)
(* Announcer: the shared game state kept by AnnouncerView and              *)
(* useLiveSession (roster, battlefield, life, commander damage), the       *)
(* profile store (MTGDatabase), the agent session lifecycle and its        *)
(* onmessage handler (tool dispatch, audio scheduling), and the peer mesh  *)
(* of usePeerNetwork.                                                      *)
(*                                                                         *)
(* Scheduling: one JavaScript event loop.  A handler runs atomically up to *)
(* its next `await`; an action of the model is one such synchronous        *)
(* segment together with the React effects its state updates trigger.      *)
(***************************************************************************)
EXTENDS Integers, Sequences, FiniteSets, TLC

\* ------------------------------------------------------------------------
\* Bounds of the model (not program constants)
\* ------------------------------------------------------------------------
MaxList == 2
MaxPending == 1
MaxLifeOps == 3
MaxDamageOps == 2
MaxLinks == 2
MaxConns == 3
MaxMsgs == 2
MaxTime == 3

\* The most function calls one message of the model carries.
MaxCallsPerMsg == 2

\* ------------------------------------------------------------------------
\* Program constants
\* ------------------------------------------------------------------------
DefaultLife == 40
MaxPlayers == 8
LethalDamage == 21

\* ------------------------------------------------------------------------
\* State
\* ------------------------------------------------------------------------
VARIABLES
    \* MTGDatabase (part_001:117-142)
    players,            \* db.players table: sequence of [id, name]
    matches,            \* db.matches table
    savedSettings,      \* db.metadata 'current_game_settings'
    \* useLiveSession game state (useLiveSession.ts:133-139, 158)
    sessionPlayers,     \* sessionPlayers state and sessionPlayersRef.current
    battlefield,        \* Record<string, BattlefieldCard[]>
    nextInstance,       \* source of crypto.randomUUID() instance ids
    gameFormat,         \* gameFormat state
    customRules,        \* customRules state
    \* AnnouncerView (part_002:133-185)
    activePlayersList,  \* names typed into the Planeswalkers panel
    currentLife,        \* Record<string, number>
    commanderDamage,    \* Record<victim, Record<attacker, number>>
    phase,              \* the turn phase (part_002:185)
    manualRegs,         \* setManualPlayers calls suspended at `await db...`
    \* useLiveSession connection state and refs (useLiveSession.ts:126-161)
    isConnected,        \* state.isConnected
    error,              \* state.error
    links,              \* one record per connect() call: its contexts, microphone stream, session, timer
    inputAudioContextRef, \* index into links of the call that set both context refs, 0 = null
    inputMixerRef,      \* index into links of the call whose mixer is current, 0 = null
    sessionPromiseRef,  \* index into links, 0 = null
    currentSessionRef,  \* index into links, 0 = null
    frameIntervalRef,   \* index into links of the timer last started, 0 = null
    inputStreamsRef,    \* set of indexes into links: the tracked microphone streams
    remoteSourcesMapRef, \* Map<peerId, source node>: [mixer, stream]
    isOutputMuted,      \* isOutputMuted state and isOutputMutedRef.current
    apiKey,             \* whether process.env.API_KEY is set in this build
    \* agent audio output (useLiveSession.ts:151-152)
    now,                \* outputAudioContext.currentTime
    nextStartTimeRef,   \* the next-start-time watermark
    sourcesRef,         \* scheduled buffer sources: [msg, start, dur]
    \* onmessage handlers and the agent transport
    handlers,           \* one record per message received
    toolResponses,      \* the functionResponses passed to session.sendToolResponse
    nextCallId,         \* source of function call ids
    \* usePeerNetwork (usePeerNetwork.ts:12-17)
    connections,        \* DataConnection[]: [peer, conn]
    remoteStreams,      \* PeerStream[]: [peerId, stream, audio]
    openConns,          \* the inbound data channels whose 'close' has not fired yet
    nextConn,           \* source of connection and stream identities
    pendingConns,       \* the inbound data channels whose 'open' has not fired yet
    inbox,              \* per channel: the last GAME_STATE payload sent on it
    \* App and the identities of the mesh (App.tsx:64-67, usePeerNetwork.ts:12, 21-39)
    appMode,            \* the mode chosen on the start screen of the hub's device, "null" before
    peerId,             \* the hub's identity once its Peer is open, a sequence of characters; <<>> is ''
    roomIdInput,        \* the text typed into the Room ID field of a joining device
    hostId,             \* the identity the joining device passed to peer.connect, <<>> before
    hubError,           \* error state of the hub's usePeerNetwork (usePeerNetwork.ts:16), "" is null
    spoke,              \* the joining device: ARClientView and its usePeerNetwork({ role: 'client' })
    \* history variables (not program state)
    expectedLife,       \* per roster player: life at entry plus the deltas since
    lifeOps,            \* number of adjustLife calls so far
    lastDamageCall,     \* the latest adjustCommanderDamage call and the value before it
    damageOps,          \* number of adjustCommanderDamage calls so far
    windows,            \* playback windows assigned since the last cancellation
    uncaught,           \* the errors reported as uncaught so far (exceptions, unhandled rejections)
    released            \* the release calls the latest disconnect() made, in the order made

dbVars == <<players, matches, savedSettings>>
gameVars == <<sessionPlayers, battlefield, nextInstance, gameFormat, customRules, activePlayersList, currentLife, commanderDamage, manualRegs, phase>>
sessVars == <<isConnected, error, links, inputAudioContextRef, inputMixerRef, sessionPromiseRef, currentSessionRef, frameIntervalRef, inputStreamsRef, remoteSourcesMapRef, isOutputMuted, apiKey>>
audioVars == <<now, nextStartTimeRef, sourcesRef>>
msgVars == <<handlers, toolResponses, nextCallId>>
appVars == <<appMode, peerId, roomIdInput, hostId, hubError, spoke>>
peerVars == <<connections, remoteStreams, openConns, nextConn, pendingConns, appVars>>
histVars == <<expectedLife, lifeOps, lastDamageCall, damageOps, windows, uncaught, released>>
vars == <<dbVars, gameVars, sessVars, audioVars, msgVars, peerVars, histVars, inbox>>

\* ------------------------------------------------------------------------
\* Strings and maps
\* ------------------------------------------------------------------------
\* The player names the model feeds in: two casings of one name, and another.
NameInputs == {"Alice", "ALICE", "Bob"}

toLowerCase(s) ==
    CASE s = "Alice" -> "alice"
      [] s = "ALICE" -> "alice"
      [] s = "Bob" -> "bob"
      [] s = " Bob" -> " bob"
      [] s = "Sol Ring" -> "sol ring"
      [] s = "SOL RING" -> "sol ring"
      [] s = "Forest" -> "forest"
      [] OTHER -> s

trim(s) ==
    CASE s = " Bob" -> "Bob"
      [] OTHER -> s

EmptyMap == [k \in {} |-> 0]

Put(f, k, v) == [x \in (DOMAIN f) \cup {k} |-> IF x = k THEN v ELSE f[x]]

\* JavaScript `f[k] || d`: d when the key is absent or its value is falsy (0).
OrDefault(f, k, d) == IF k \in DOMAIN f /\ f[k] # 0 THEN f[k] ELSE d

Min(S) == CHOOSE x \in S : \A y \in S : x <= y

Max2(a, b) == IF a >= b THEN a ELSE b

SeqRange(s) == {s[i] : i \in 1..Len(s)}

Names(profiles) == {profiles[i].name : i \in 1..Len(profiles)}

NameSeq(profiles) == [i \in 1..Len(profiles) |-> profiles[i].name]

RECURSIVE FilterOut(_, _)
FilterOut(s, x) ==
    IF s = <<>> THEN <<>>
    ELSE IF Head(s) = x THEN FilterOut(Tail(s), x)
    ELSE <<Head(s)>> \o FilterOut(Tail(s), x)

\* ------------------------------------------------------------------------
\* MTGDatabase.registerSessionPlayers (part_001:194-216), one transaction:
\* case-insensitive find-or-create of every name, in order.
\* ------------------------------------------------------------------------
SameProfileName_Exact(stored, cleanName) == stored = cleanName

\* The filter of the lookup (part_001:202)
SameProfileName(stored, cleanName) == toLowerCase(stored) = toLowerCase(cleanName)

RECURSIVE registerSessionPlayers(_, _, _)
registerSessionPlayers(table, names, profiles) ==
    IF names = <<>> THEN [players |-> table, profiles |-> profiles]
    ELSE LET cleanName == trim(Head(names))
             found == {i \in 1..Len(table) : SameProfileName(table[i].name, cleanName)}
             created == [id |-> Len(table) + 1, name |-> cleanName]
         IN IF found # {}
            THEN registerSessionPlayers(table, Tail(names), Append(profiles, table[Min(found)]))
            ELSE registerSessionPlayers(Append(table, created), Tail(names), Append(profiles, created))

\* ------------------------------------------------------------------------
\* Broadcast of the game state to the peers
\* ------------------------------------------------------------------------
IsOpen_Always(conn, open) == TRUE

\* conn.open (usePeerNetwork.ts:111)
IsOpen(conn, open) == conn \in open

\* broadcast (usePeerNetwork.ts:109-113): the message is sent on every channel
\* of the connection list that is open.
broadcast(box, conns, open, message) ==
    LET targets == {conns[i].conn : i \in {j \in 1..Len(conns) : IsOpen(conns[j], open)}}
    IN [c \in (DOMAIN box) \cup targets |-> IF c \in targets THEN message ELSE box[c]]

\* The payload of the GAME_STATE message (part_002:190-198)
Snapshot(sp, bf, ph, life, dmg) ==
    [players |-> sp, battlefield |-> bf, phase |-> ph, currentLife |-> life, commanderDamage |-> dmg]

\* The payloads the broadcast effect (part_002:187-201) passes to broadcast in
\* the renders of one step, in order.  A new roster is committed with the life
\* totals of before: the broadcast effect of that render runs, then the life
\* tracker effect (part_002:232-243) sets the totals, and the render that
\* follows runs the broadcast effect again.
EffectPayloads ==
    (IF sessionPlayers' # sessionPlayers /\ Len(sessionPlayers') > 0
     THEN <<Snapshot(sessionPlayers', battlefield', phase', currentLife, commanderDamage')>>
     ELSE <<>>)
    \o
    (IF /\ <<sessionPlayers, battlefield, phase, currentLife, commanderDamage>>' #
             <<sessionPlayers, battlefield, phase, currentLife, commanderDamage>>
        /\ Len(sessionPlayers') > 0
     THEN <<Snapshot(sessionPlayers', battlefield', phase', currentLife', commanderDamage')>>
     ELSE <<>>)

\* "Broadcast Game State on change" (part_002:187-201): the effect of
\* [sessionPlayers, battlefield, phase, currentLife, commanderDamage], run after
\* each render that commits updates of a handler; a channel keeps the last
\* payload sent on it.
RunBroadcastEffect ==
    inbox' =
        IF EffectPayloads # <<>>
        THEN broadcast(inbox, connections', openConns', EffectPayloads[Len(EffectPayloads)])
        ELSE inbox

\* ------------------------------------------------------------------------
\* AnnouncerView effects and manual operations
\* ------------------------------------------------------------------------
\* "Update life trackers when new players are registered" (part_002:233-243):
\* runs after every change of sessionPlayers; does nothing for an empty roster.
LifeTrackerLife(profiles) ==
    IF Len(profiles) > 0
    THEN [n \in Names(profiles) |-> OrDefault(currentLife, n, DefaultLife)]
    ELSE currentLife

LifeTrackerList(profiles) ==
    IF Len(profiles) > 0 THEN NameSeq(profiles) ELSE activePlayersList

\* initialBoard of setManualPlayers / register_players: an empty board per profile.
InitialBoard(profiles) == [n \in Names(profiles) |-> <<>>]

\* History: a player who stays in the roster keeps the expected life, a player
\* who enters starts from the life the tracker gives on entry.
ExpectedAfterRoster(profiles, life) ==
    [n \in Names(profiles) |->
        IF n \in Names(sessionPlayers) /\ n \in DOMAIN expectedLife
        THEN expectedLife[n] ELSE life[n]]

\* The continuation of setManualPlayers (useLiveSession.ts:260-265) and of the
\* register_players tool (useLiveSession.ts:533-537), with the life tracker
\* effect the roster change triggers.
ApplyRoster(profiles) ==
    /\ sessionPlayers' = profiles
    /\ battlefield' = InitialBoard(profiles)
    /\ currentLife' = LifeTrackerLife(profiles)
    /\ activePlayersList' = LifeTrackerList(profiles)
    /\ expectedLife' = ExpectedAfterRoster(profiles, LifeTrackerLife(profiles))

\* addManualPlayer (part_002:290-297); the input is already trimmed and non-empty.
addManualPlayer(name) ==
    /\ trim(name) # ""
    /\ Len(activePlayersList) < MaxPlayers
    /\ Len(activePlayersList) < MaxList
    /\ Len(manualRegs) < MaxPending
    /\ activePlayersList' = Append(activePlayersList, trim(name))
    /\ manualRegs' = Append(manualRegs, Append(activePlayersList, trim(name)))
    /\ UNCHANGED <<sessionPlayers, battlefield, nextInstance, gameFormat, customRules, currentLife, commanderDamage, phase>>
    /\ UNCHANGED <<dbVars, sessVars, audioVars, msgVars, peerVars, histVars>>
    /\ RunBroadcastEffect

\* removeManualPlayer (part_002:299-303)
removeManualPlayer(name) ==
    /\ name \in SeqRange(activePlayersList)
    /\ Len(manualRegs) < MaxPending
    /\ activePlayersList' = FilterOut(activePlayersList, name)
    /\ manualRegs' = Append(manualRegs, FilterOut(activePlayersList, name))
    /\ UNCHANGED <<sessionPlayers, battlefield, nextInstance, gameFormat, customRules, currentLife, commanderDamage, phase>>
    /\ UNCHANGED <<dbVars, sessVars, audioVars, msgVars, peerVars, histVars>>
    /\ RunBroadcastEffect

\* setManualPlayers (useLiveSession.ts:258-266) resumed after its await: the
\* store transaction commits and the continuation runs in the same turn.
setManualPlayers(k) ==
    /\ k \in 1..Len(manualRegs)
    /\ LET r == registerSessionPlayers(players, manualRegs[k], <<>>)
       IN /\ players' = r.players
          /\ ApplyRoster(r.profiles)
    /\ manualRegs' = [i \in 1..(Len(manualRegs) - 1) |-> IF i < k THEN manualRegs[i] ELSE manualRegs[i + 1]]
    /\ UNCHANGED <<nextInstance, gameFormat, customRules, commanderDamage, phase>>
    /\ UNCHANGED <<matches, savedSettings>>
    /\ UNCHANGED <<lifeOps, lastDamageCall, damageOps, windows, uncaught, released>>
    /\ UNCHANGED <<sessVars, audioVars, msgVars, peerVars>>
    /\ RunBroadcastEffect

\* setManualFormat (useLiveSession.ts:281-293): the function of the current
\* render saves the new format with the customRules state of that render.
setManualFormat(format) ==
    /\ gameFormat # format
    /\ gameFormat' = format
    /\ savedSettings' = [format |-> format, customRules |-> customRules]
    /\ UNCHANGED <<players, matches>>
    /\ UNCHANGED <<sessionPlayers, battlefield, nextInstance, customRules, activePlayersList, currentLife, commanderDamage, manualRegs, phase>>
    /\ UNCHANGED <<sessVars, audioVars, msgVars, peerVars, histVars>>
    /\ UNCHANGED inbox

\* setManualRules (useLiveSession.ts:295-307)
setManualRules(rules) ==
    /\ customRules # rules
    /\ customRules' = rules
    /\ savedSettings' = [format |-> gameFormat, customRules |-> rules]
    /\ UNCHANGED <<players, matches>>
    /\ UNCHANGED <<sessionPlayers, battlefield, nextInstance, gameFormat, activePlayersList, currentLife, commanderDamage, manualRegs, phase>>
    /\ UNCHANGED <<sessVars, audioVars, msgVars, peerVars, histVars>>
    /\ UNCHANGED inbox

\* The amounts fed to adjustLife and adjustCommanderDamage: the functions take
\* any number; the buttons pass -1 and 1 (part_002:639-641, 676-678).
LifeDeltas == {-20, -1, 1, 20}

DamageDeltas == {-LethalDamage, -1, 1, LethalDamage}

\* adjustLife (part_002:263-268); the buttons exist for roster players only.
adjustLife(playerName, amount) ==
    /\ playerName \in Names(sessionPlayers)
    /\ lifeOps < MaxLifeOps
    /\ currentLife' = Put(currentLife, playerName, OrDefault(currentLife, playerName, DefaultLife) + amount)
    /\ expectedLife' = Put(expectedLife, playerName, expectedLife[playerName] + amount)
    /\ lifeOps' = lifeOps + 1
    /\ UNCHANGED <<sessionPlayers, battlefield, nextInstance, gameFormat, customRules, activePlayersList, commanderDamage, manualRegs, phase>>
    /\ UNCHANGED <<lastDamageCall, damageOps, windows, uncaught, released>>
    /\ UNCHANGED <<dbVars, sessVars, audioVars, msgVars, peerVars>>
    /\ RunBroadcastEffect

\* GamePhase (part_001:389-398) and the phases the model clicks.
GamePhase == {"Untap", "Upkeep", "Draw", "Main 1", "Combat", "Main 2", "End", "Cleanup"}

PhaseInputs == {"Main 1", "Combat"}

\* The phase buttons (part_002:727-730)
setPhase(p) ==
    /\ p \in GamePhase
    /\ phase' = p
    /\ UNCHANGED <<sessionPlayers, battlefield, nextInstance, gameFormat, customRules, activePlayersList, currentLife, commanderDamage, manualRegs>>
    /\ UNCHANGED <<dbVars, sessVars, audioVars, msgVars, peerVars, histVars>>
    /\ RunBroadcastEffect

NewDamage_NoClamp(victim, attacker, amount) ==
    LET victimRecord == IF victim \in DOMAIN commanderDamage THEN commanderDamage[victim] ELSE EmptyMap
        currentVal == OrDefault(victimRecord, attacker, 0)
    IN currentVal + amount

\* The value adjustCommanderDamage stores (part_002:272-274).
NewDamage(victim, attacker, amount) ==
    LET victimRecord == IF victim \in DOMAIN commanderDamage THEN commanderDamage[victim] ELSE EmptyMap
        currentVal == OrDefault(victimRecord, attacker, 0)
    IN Max2(0, currentVal + amount)

StoredDamage(victim, attacker) ==
    IF victim \in DOMAIN commanderDamage /\ attacker \in DOMAIN commanderDamage[victim]
    THEN commanderDamage[victim][attacker] ELSE 0

\* adjustCommanderDamage (part_002:270-280); the buttons exist for every pair of
\* distinct roster players once the roster holds more than one.
adjustCommanderDamage(victim, attacker, amount) ==
    /\ Len(sessionPlayers) > 1
    /\ victim \in Names(sessionPlayers)
    /\ attacker \in Names(sessionPlayers)
    /\ victim # attacker
    /\ damageOps < MaxDamageOps
    /\ LET victimRecord == IF victim \in DOMAIN commanderDamage THEN commanderDamage[victim] ELSE EmptyMap
       IN commanderDamage' = Put(commanderDamage, victim, Put(victimRecord, attacker, NewDamage(victim, attacker, amount)))
    /\ lastDamageCall' = [victim |-> victim, attacker |-> attacker, amount |-> amount, prev |-> StoredDamage(victim, attacker)]
    /\ damageOps' = damageOps + 1
    /\ UNCHANGED <<sessionPlayers, battlefield, nextInstance, gameFormat, customRules, activePlayersList, currentLife, manualRegs, phase>>
    /\ UNCHANGED <<expectedLife, lifeOps, windows, uncaught, released>>
    /\ UNCHANGED <<dbVars, sessVars, audioVars, msgVars, peerVars>>
    /\ RunBroadcastEffect

getLethalSources_Strict(victim) ==
    IF victim \notin DOMAIN commanderDamage THEN {}
    ELSE {a \in DOMAIN commanderDamage[victim] : commanderDamage[victim][a] > LethalDamage}

\* getLethalSources (part_002:282-288)
getLethalSources(victim) ==
    IF victim \notin DOMAIN commanderDamage THEN {}
    ELSE {a \in DOMAIN commanderDamage[victim] : commanderDamage[victim][a] >= LethalDamage}

\* The "Lethal" flag of a player (part_002:630, 662-663)
isLethal(victim) == getLethalSources(victim) # {}

\* ------------------------------------------------------------------------
\* usePeerNetwork, host role (usePeerNetwork.ts:46-63, 95-107)
\* ------------------------------------------------------------------------
PeerIds == {"p1", "p2"}

RejectBy_All(s, field, value) == <<>>

\* prev.filter(x => x[field] !== value)
RECURSIVE RejectBy(_, _, _)
RejectBy(s, field, value) ==
    IF s = <<>> THEN <<>>
    ELSE IF Head(s)[field] = value THEN RejectBy(Tail(s), field, value)
    ELSE <<Head(s)>> \o RejectBy(Tail(s), field, value)

\* "DYNAMIC AUDIO MIXING FOR REMOTE STREAMS" (useLiveSession.ts:219-254), the
\* effect of [remoteStreams, state.isConnected].  A source is created on the
\* context of inputAudioContextRef and connected to the mixer of inputMixerRef;
\* connecting nodes of two different contexts throws, which the effect catches.
MixerAdd(map, streams, ctxRef, mixRef) ==
    LET fresh == {i \in 1..Len(streams) : streams[i].peerId \notin DOMAIN map /\ streams[i].audio /\ ctxRef = mixRef}
        ids == {streams[i].peerId : i \in fresh}
    IN [p \in (DOMAIN map) \cup ids |->
            IF p \in DOMAIN map THEN map[p]
            ELSE [mixer |-> mixRef, stream |-> streams[CHOOSE i \in fresh : streams[i].peerId = p].stream]]

MixerRemove(map, streams) ==
    LET activeIds == {streams[i].peerId : i \in 1..Len(streams)}
    IN [p \in (DOMAIN map) \cap activeIds |-> map[p]]

MixerEffect(map, streams, connected, ctxRef, mixRef) ==
    IF ~connected \/ ctxRef = 0 \/ mixRef = 0 THEN map
    ELSE MixerRemove(MixerAdd(map, streams, ctxRef, mixRef), streams)

\* The effect runs after a render in which one of its dependencies changed.
RunMixerEffect ==
    remoteSourcesMapRef' =
        IF remoteStreams' # remoteStreams \/ isConnected' # isConnected
        THEN MixerEffect(remoteSourcesMapRef, remoteStreams', isConnected', inputAudioContextRef', inputMixerRef')
        ELSE remoteSourcesMapRef

\* peer.on('connection') -> setupDataConnection (usePeerNetwork.ts:48-51, 95-96):
\* the new channel is appended to the connection list; the hub receives it before
\* the channel is open.
NewConnections(prev, conn) == Append(prev, conn)

NewConnections_Replace(prev, conn) == Append(RejectBy(prev, "peer", conn.peer), conn)

setupDataConnection(p) ==
    /\ peerId # <<>>
    /\ nextConn <= MaxConns
    /\ connections' = NewConnections(connections, [peer |-> p, conn |-> nextConn])
    /\ pendingConns' = pendingConns \cup {[peer |-> p, conn |-> nextConn]}
    /\ nextConn' = nextConn + 1
    /\ UNCHANGED <<remoteStreams, openConns, appVars>>
    /\ UNCHANGED <<dbVars, gameVars, sessVars, audioVars, msgVars, histVars>>
    /\ UNCHANGED inbox

\* The 'open' event of an inbound channel: conn.open becomes true.
onConnOpen(c) ==
    /\ c \in pendingConns
    /\ pendingConns' = pendingConns \ {c}
    /\ openConns' = openConns \cup {c}
    /\ UNCHANGED <<connections, remoteStreams, nextConn, appVars>>
    /\ UNCHANGED <<dbVars, gameVars, sessVars, audioVars, msgVars, histVars>>
    /\ UNCHANGED inbox

\* peer.on('call') -> call.on('stream') (usePeerNetwork.ts:53-62): a spoke calls
\* once its data channel is open; a stream of a peer id already present is dropped.
NewRemoteStreams(prev, rs) ==
    IF \E i \in 1..Len(prev) : prev[i].peerId = rs.peerId THEN prev ELSE Append(prev, rs)

onCallStream(p, audio) ==
    /\ nextConn <= MaxConns
    /\ \E c \in openConns : c.peer = p
    /\ remoteStreams' = NewRemoteStreams(remoteStreams, [peerId |-> p, stream |-> nextConn, audio |-> audio])
    /\ nextConn' = nextConn + 1
    /\ UNCHANGED <<connections, openConns, pendingConns, appVars>>
    /\ UNCHANGED <<isConnected, error, links, inputAudioContextRef, inputMixerRef, sessionPromiseRef, currentSessionRef, frameIntervalRef, inputStreamsRef, isOutputMuted, apiKey>>
    /\ UNCHANGED <<dbVars, gameVars, audioVars, msgVars, histVars>>
    /\ RunMixerEffect
    /\ UNCHANGED inbox

\* conn.on('close') (usePeerNetwork.ts:102-106)
onConnClose(c) ==
    /\ c \in openConns
    /\ openConns' = openConns \ {c}
    /\ connections' = RejectBy(connections, "peer", c.peer)
    /\ remoteStreams' = RejectBy(remoteStreams, "peerId", c.peer)
    /\ UNCHANGED <<nextConn, pendingConns, appVars>>
    /\ UNCHANGED <<isConnected, error, links, inputAudioContextRef, inputMixerRef, sessionPromiseRef, currentSessionRef, frameIntervalRef, inputStreamsRef, isOutputMuted, apiKey>>
    /\ UNCHANGED <<dbVars, gameVars, audioVars, msgVars, histVars>>
    /\ RunMixerEffect
    /\ UNCHANGED inbox

\* ------------------------------------------------------------------------
\* Start screen, hub identity and joining (App.tsx:64-108, usePeerNetwork.ts:21-39, 70-74)
\* ------------------------------------------------------------------------
\* Strings that are taken apart are sequences of one-character strings.
DigitChar(d) == <<"0", "1", "2", "3", "4", "5", "6", "7", "8", "9">>[d + 1]

\* String(n) of a number of four digits
Digits(n) == <<DigitChar(n \div 1000), DigitChar((n \div 100) % 10), DigitChar((n \div 10) % 10), DigitChar(n % 10)>>

\* Math.floor(Math.random() * 9000 + 1000) (usePeerNetwork.ts:24): 1000..9999,
\* of which the model draws these.
HubNumbers == {1000, 1234, 9999}

\* `mtg-${...}` (usePeerNetwork.ts:23-24)
HubIdentity(n) == <<"m", "t", "g", "-">> \o Digits(n)

\* s.split(sep)
RECURSIVE Split(_, _)
Split(s, sep) ==
    IF \A i \in 1..Len(s) : s[i] # sep THEN <<s>>
    ELSE LET i == CHOOSE j \in 1..Len(s) : s[j] = sep /\ \A k \in 1..(j - 1) : s[k] # sep
         IN <<SubSeq(s, 1, i - 1)>> \o Split(SubSeq(s, i + 1, Len(s)), sep)

\* The code under "Session Room ID": peerId.split('-')[1] || peerId (part_002:419)
RoomCode(id) ==
    LET parts == Split(id, "-")
    IN IF Len(parts) >= 2 /\ parts[2] # <<>> THEN parts[2] ELSE id

\* The identity connectToHost(roomId) passes to peer.connect: roomId as typed
\* (App.tsx:108, ARClientView.tsx:47-51, usePeerNetwork.ts:36-38, 70-74)
HostIdOf(roomId) == roomId

\* What a player may type: the code a hub shows or a hub's full identity.
RoomInputs == {RoomCode(HubIdentity(n)) : n \in HubNumbers} \cup {HubIdentity(n) : n \in HubNumbers}

\* The mode buttons of the start screen (App.tsx:160, 178); AnnouncerView mounts
\* (App.tsx:335) and its mode effect sets the mute flag (part_002:203-210).
selectMode(mode) ==
    /\ appMode = "null"
    /\ mode \in {"Announcer", "AR View"}
    /\ appMode' = mode
    /\ isOutputMuted' = (mode = "AR View")
    /\ UNCHANGED <<peerId, roomIdInput, hostId, hubError, spoke>>
    /\ UNCHANGED <<connections, remoteStreams, openConns, nextConn, pendingConns>>
    /\ UNCHANGED <<isConnected, error, links, inputAudioContextRef, inputMixerRef, sessionPromiseRef, currentSessionRef, frameIntervalRef, inputStreamsRef, remoteSourcesMapRef, apiKey>>
    /\ UNCHANGED <<dbVars, gameVars, audioVars, msgVars, histVars>>
    /\ UNCHANGED inbox

\* usePeerNetwork({ role: 'host' }) of the mounted AnnouncerView (part_002:163):
\* the effect creates the Peer with a random identity and peer.on('open') stores
\* it (usePeerNetwork.ts:21-35).  Nothing in it depends on appMode.
peerOpen(n) ==
    /\ appMode \in {"Announcer", "AR View"}
    /\ peerId = <<>>
    /\ hubError = ""
    /\ peerId' = HubIdentity(n)
    /\ UNCHANGED <<appMode, roomIdInput, hostId, hubError, spoke>>
    /\ UNCHANGED <<connections, remoteStreams, openConns, nextConn, pendingConns>>
    /\ UNCHANGED <<dbVars, gameVars, sessVars, audioVars, msgVars, histVars>>
    /\ UNCHANGED inbox

\* The Room ID field of the joining device (App.tsx:216-219)
setRoomIdInput(text) ==
    /\ hostId = <<>>
    /\ roomIdInput # text
    /\ roomIdInput' = text
    /\ UNCHANGED <<appMode, peerId, hostId, hubError, spoke>>
    /\ UNCHANGED <<connections, remoteStreams, openConns, nextConn, pendingConns>>
    /\ UNCHANGED <<dbVars, gameVars, sessVars, audioVars, msgVars, histVars>>
    /\ UNCHANGED inbox

\* The joining device before ARClientView is mounted: localStream is the state
\* of ARClientView.tsx:13 (0 is null, 1 the stream of the camera), captured the
\* localStream that the connectToHost of the mount render closes over
\* (usePeerNetwork.ts:21, 37, 68, 82), peer and conn where its Peer and its
\* channel to the hub stand, calls the number of peer.call made, error and
\* isConnected the states of usePeerNetwork.ts:16-17.
SpokeStart == [localStream |-> 0, captured |-> 0, peer |-> "none", conn |-> "none", calls |-> 0, error |-> "", isConnected |-> FALSE]

\* "Network error: " + err.type (usePeerNetwork.ts:43)
NetworkError(type) ==
    CASE type = "unavailable-id" -> "Network error: unavailable-id"
      [] type = "peer-unavailable" -> "Network error: peer-unavailable"
      [] OTHER -> "Network error: network"

\* usePeerNetwork.ts:91
CheckRoomId == "Could not find host. Check Room ID."

\* What ARClientView shows in its status badge (ARClientView.tsx:117)
StatusBadge == IF spoke.isConnected THEN "Connected" ELSE IF spoke.error # "" THEN spoke.error ELSE "Connecting..."

\* handleJoinGame (App.tsx:100-104) mounts ARClientView with roomId = roomIdInput;
\* its Peer opens and calls connectToHost(roomId) (usePeerNetwork.ts:33-38, 70-74).
\* The usePeerNetwork effect runs once, with the render of the mount.
handleJoinGame ==
    /\ roomIdInput # <<>>
    /\ hostId = <<>>
    /\ hostId' = HostIdOf(roomIdInput)
    /\ spoke' = [spoke EXCEPT !.captured = spoke.localStream]
    /\ UNCHANGED <<appMode, peerId, roomIdInput, hubError>>
    /\ UNCHANGED <<connections, remoteStreams, openConns, nextConn, pendingConns>>
    /\ UNCHANGED <<dbVars, gameVars, sessVars, audioVars, msgVars, histVars>>
    /\ UNCHANGED inbox

\* What a step of the joining device leaves alone.
SpokeFrame ==
    /\ UNCHANGED <<appMode, peerId, roomIdInput, hostId, hubError>>
    /\ UNCHANGED <<connections, remoteStreams, openConns, nextConn, pendingConns>>
    /\ UNCHANGED <<dbVars, gameVars, sessVars, audioVars, msgVars, histVars>>
    /\ UNCHANGED inbox

\* getUserMedia of the mounted ARClientView resolves: setLocalStream(stream)
\* (ARClientView.tsx:18-32).  The re-render passes the stream to usePeerNetwork,
\* whose effect has no dependency and does not run again.
streamAcquired ==
    /\ hostId # <<>>
    /\ spoke.localStream = 0
    /\ spoke' = [spoke EXCEPT !.localStream = 1]
    /\ SpokeFrame

\* peer.on('open') of the joining device: connectToHost(roomId) starts the
\* channel (usePeerNetwork.ts:33-38, 70-74).
spokePeerOpen ==
    /\ hostId # <<>>
    /\ spoke.peer = "none"
    /\ spoke' = [spoke EXCEPT !.peer = "open", !.conn = "connecting"]
    /\ SpokeFrame

\* conn.on('open'): the hub registered under hostId answered
\* (usePeerNetwork.ts:76-87); localStream is the one of the closure.
spokeConnOpen ==
    /\ spoke.conn = "connecting"
    /\ hostId = peerId
    /\ spoke' = [spoke EXCEPT !.conn = "open", !.isConnected = TRUE,
                               !.calls = IF spoke.captured # 0 THEN spoke.calls + 1 ELSE spoke.calls]
    /\ SpokeFrame

\* conn.on('error') (usePeerNetwork.ts:89-92)
spokeConnError ==
    /\ spoke.conn = "connecting"
    /\ spoke' = [spoke EXCEPT !.conn = "failed", !.error = CheckRoomId]
    /\ SpokeFrame

\* peer.on('error') of the joining device: the signalling server knows no peer
\* of that identity (usePeerNetwork.ts:41-44).
spokePeerError(type) ==
    /\ spoke.conn = "connecting"
    /\ hostId # peerId
    /\ spoke.error # NetworkError(type)
    /\ spoke' = [spoke EXCEPT !.error = NetworkError(type)]
    /\ SpokeFrame

\* peer.on('error') of the hub: the identity it asked for is taken
\* (usePeerNetwork.ts:27, 41-44).  No handler makes another Peer.
peerIdTaken ==
    /\ appMode \in {"Announcer", "AR View"}
    /\ peerId = <<>>
    /\ hubError = ""
    /\ hubError' = NetworkError("unavailable-id")
    /\ UNCHANGED <<appMode, peerId, roomIdInput, hostId, spoke>>
    /\ UNCHANGED <<connections, remoteStreams, openConns, nextConn, pendingConns>>
    /\ UNCHANGED <<dbVars, gameVars, sessVars, audioVars, msgVars, histVars>>
    /\ UNCHANGED inbox

\* The signalling server hands the joining device's connection to the Peer
\* registered under hostId, if there is one.
spokeJoins(p) ==
    /\ hostId # <<>>
    /\ hostId = peerId
    /\ \A i \in 1..Len(connections) : connections[i].peer # p
    /\ setupDataConnection(p)

\* ------------------------------------------------------------------------
\* Agent session lifecycle (useLiveSession.ts:381-432, 468-476, 690-723)
\* ------------------------------------------------------------------------
\* A link is one connect() call: pc is where it stands ("mic": awaiting
\* getUserMedia, "connecting": awaiting ai.live.connect, "open", "closed",
\* "closing": close() was called and the onclose callback is still to come,
\* "failed": the call ended in its catch block); ctxClosed, micLive and timer
\* tell whether its audio contexts are closed, its microphone track is live and
\* its frame interval is running.  cancelled is history: disconnect() ran while
\* the call was still opening.
\* capFormat and capRules are the gameFormat and customRules the callbacks of this
\* call close over (useCallback dependencies, useLiveSession.ts:701).
NewLink == [pc |-> "mic", ctxClosed |-> FALSE, micLive |-> FALSE, timer |-> FALSE, cancelled |-> FALSE, capFormat |-> gameFormat, capRules |-> customRules]

Opening(k) == links[k].pc \in {"mic", "connecting"}

\* connect() up to `await getUserMedia` (useLiveSession.ts:381-396); toggleSession
\* (part_002:245-251) calls it whenever state.isConnected is false.
KeyCheckPasses_Always == TRUE

\* The credential check of connect() (useLiveSession.ts:384-386)
KeyCheckPasses == apiKey

MissingCredential == "AI features require a Gemini API key. Configure it in Settings to enable the Announcer."

\* Without a credential the throw of the check is caught (697-700) before
\* anything is created.
connect ==
    /\ ~isConnected
    /\ IF KeyCheckPasses
       THEN /\ Len(links) < MaxLinks
            /\ links' = Append(links, NewLink)
            /\ inputAudioContextRef' = Len(links) + 1
            /\ UNCHANGED error
       ELSE /\ error' = MissingCredential
            /\ UNCHANGED <<links, inputAudioContextRef>>
    /\ UNCHANGED <<isConnected, inputMixerRef, sessionPromiseRef, currentSessionRef, frameIntervalRef, inputStreamsRef, remoteSourcesMapRef, isOutputMuted, apiKey>>
    /\ UNCHANGED <<dbVars, gameVars, audioVars, msgVars, peerVars, histVars>>
    /\ UNCHANGED inbox

\* connect() resumed with the microphone stream (useLiveSession.ts:397-432, 694):
\* the stream is tracked, the mixer replaced, the session requested.  Nodes can
\* be created on a closed context, so the call goes on after a disconnect().
getUserMediaResolved(k) ==
    /\ k \in 1..Len(links)
    /\ links[k].pc = "mic"
    /\ links' = [links EXCEPT ![k].pc = "connecting", ![k].micLive = TRUE]
    /\ inputStreamsRef' = inputStreamsRef \cup {k}
    /\ inputMixerRef' = k
    /\ sessionPromiseRef' = k
    /\ UNCHANGED <<isConnected, error, inputAudioContextRef, currentSessionRef, frameIntervalRef, remoteSourcesMapRef, isOutputMuted, apiKey>>
    /\ UNCHANGED <<dbVars, gameVars, audioVars, msgVars, peerVars, histVars>>
    /\ UNCHANGED inbox

\* getUserMedia rejects: the catch block (useLiveSession.ts:697-700)
getUserMediaRejected(k) ==
    /\ k \in 1..Len(links)
    /\ links[k].pc = "mic"
    /\ links' = [links EXCEPT ![k].pc = "failed"]
    /\ error' = "Failed to connect"
    /\ UNCHANGED <<isConnected, inputAudioContextRef, inputMixerRef, sessionPromiseRef, currentSessionRef, frameIntervalRef, inputStreamsRef, remoteSourcesMapRef, isOutputMuted, apiKey>>
    /\ UNCHANGED <<dbVars, gameVars, audioVars, msgVars, peerVars, histVars>>
    /\ UNCHANGED inbox

\* onopen (useLiveSession.ts:468-476), then the session promise resolves
\* (useLiveSession.ts:695).
onopen(k) ==
    /\ k \in 1..Len(links)
    /\ links[k].pc = "connecting"
    /\ links' = [links EXCEPT ![k].pc = "open", ![k].timer = TRUE]
    /\ isConnected' = TRUE
    /\ frameIntervalRef' = k
    /\ currentSessionRef' = k
    /\ UNCHANGED <<error, inputAudioContextRef, inputMixerRef, sessionPromiseRef, inputStreamsRef, isOutputMuted, apiKey>>
    /\ UNCHANGED <<remoteStreams>>
    /\ UNCHANGED <<connections, openConns, nextConn, pendingConns, appVars>>
    /\ UNCHANGED <<dbVars, gameVars, audioVars, msgVars, histVars>>
    /\ RunMixerEffect
    /\ UNCHANGED inbox

\* onclose (useLiveSession.ts:690): the transport reports the session closed.
onclose(k) ==
    /\ k \in 1..Len(links)
    /\ links[k].pc \in {"open", "closing"}
    /\ links' = [links EXCEPT ![k].pc = "closed"]
    /\ isConnected' = FALSE
    /\ UNCHANGED <<error, inputAudioContextRef, inputMixerRef, sessionPromiseRef, currentSessionRef, frameIntervalRef, inputStreamsRef, isOutputMuted, apiKey>>
    /\ UNCHANGED <<remoteStreams>>
    /\ UNCHANGED <<connections, openConns, nextConn, pendingConns, appVars>>
    /\ UNCHANGED <<dbVars, gameVars, audioVars, msgVars, histVars>>
    /\ RunMixerEffect
    /\ UNCHANGED inbox

\* The links as disconnect() leaves them (useLiveSession.ts:704-711): the
\* session of currentSessionRef closed, the interval of frameIntervalRef
\* cleared, the contexts of the context refs closed, the tracked streams stopped.
LinksAfterDisconnect ==
    [k \in 1..Len(links) |->
        [pc |-> IF k = currentSessionRef /\ links[k].pc = "open" THEN "closed" ELSE links[k].pc,
         ctxClosed |-> links[k].ctxClosed \/ k = inputAudioContextRef,
         micLive |-> links[k].micLive /\ k \notin inputStreamsRef,
         timer |-> links[k].timer /\ k # frameIntervalRef,
         cancelled |-> links[k].cancelled \/ Opening(k),
         capFormat |-> links[k].capFormat,
         capRules |-> links[k].capRules]]

\* The release calls of disconnect() in the order of its statements
\* (useLiveSession.ts:704-718): session.close(), clearInterval, the two context
\* closes, the track stops, the disconnects of the remote sources, the stops
\* of the scheduled sources.
DisconnectOrder == <<"session", "timer", "inputContext", "outputContext", "tracks", "remoteSource", "scheduledSource">>

\* Each call is made only if its ref is set or its collection has an element.
StepApplies(step) ==
    CASE step = "session" -> currentSessionRef # 0
      [] step = "timer" -> frameIntervalRef # 0
      [] step \in {"inputContext", "outputContext"} -> inputAudioContextRef # 0
      [] step = "tracks" -> inputStreamsRef # {}
      [] step = "remoteSource" -> DOMAIN remoteSourcesMapRef # {}
      [] step = "scheduledSource" -> sourcesRef # {}

\* The promises disconnect() drops that are rejected: close() of a context
\* that is closed already rejects with InvalidStateError (useLiveSession.ts:706-707).
DisconnectRejections ==
    IF inputAudioContextRef # 0 /\ links[inputAudioContextRef].ctxClosed
    THEN {"InvalidStateError: close of a closed AudioContext"}
    ELSE {}

\* One invocation of disconnect() (useLiveSession.ts:703-723)
disconnectCall ==
    /\ links' = LinksAfterDisconnect
    /\ uncaught' = uncaught \cup DisconnectRejections
    /\ released' = SelectSeq(DisconnectOrder, StepApplies)
    /\ inputStreamsRef' = {}
    /\ remoteSourcesMapRef' = EmptyMap
    /\ sourcesRef' = {}
    /\ windows' = {}
    /\ isConnected' = FALSE
    /\ error' = "null"
    /\ ApplyRoster(<<>>)
    /\ UNCHANGED <<inputAudioContextRef, inputMixerRef, sessionPromiseRef, currentSessionRef, frameIntervalRef, isOutputMuted, apiKey>>
    /\ UNCHANGED <<nextInstance, gameFormat, customRules, commanderDamage, manualRegs, phase>>
    /\ UNCHANGED <<now, nextStartTimeRef>>
    /\ UNCHANGED <<lifeOps, lastDamageCall, damageOps>>
    /\ UNCHANGED <<dbVars, msgVars, peerVars>>
    /\ RunBroadcastEffect

\* toggleSession (part_002:245-251) calls disconnect() whenever
\* state.isConnected is true.
disconnect ==
    /\ isConnected
    /\ disconnectCall

\* disconnect() invoked while state.isConnected is false: the hook exports it
\* (useLiveSession.ts:725-740) although toggleSession does not call it then.
disconnectAgain ==
    /\ ~isConnected
    /\ disconnectCall

\* The release steps of disconnect() that call into the platform, by their
\* position in the sequence (useLiveSession.ts:704-718): 1 session.close(),
\* 2 clearInterval, 3 and 4 the two context closes, 5 the track stops, 6 the
\* disconnects of the remote sources, 7 the stops of the scheduled sources.
TeardownSteps == {"session", "inputContext", "outputContext", "remoteSource", "scheduledSource"}

StepNo(step) == CHOOSE i \in 1..Len(DisconnectOrder) : DisconnectOrder[i] = step

\* The links when disconnect() has run its steps before step n only.
LinksAfterTeardown(n) ==
    [k \in 1..Len(links) |->
        [pc |-> IF n > 1 /\ k = currentSessionRef /\ links[k].pc = "open" THEN "closing" ELSE links[k].pc,
         ctxClosed |-> links[k].ctxClosed \/ (n > 3 /\ k = inputAudioContextRef),
         micLive |-> links[k].micLive /\ ~(n > 5 /\ k \in inputStreamsRef),
         timer |-> links[k].timer /\ ~(n > 2 /\ k = frameIntervalRef),
         cancelled |-> links[k].cancelled \/ Opening(k),
         capFormat |-> links[k].capFormat,
         capRules |-> links[k].capRules]]

\* disconnect() when the platform call of one step throws: the function has no
\* try/catch/finally, so it ends there (useLiveSession.ts:703-723).  A foreach
\* step throws on its first element.
disconnectThrew(step) ==
    /\ isConnected
    /\ step \in TeardownSteps
    /\ step = "session" => currentSessionRef # 0
    /\ step \in {"inputContext", "outputContext"} => inputAudioContextRef # 0
    /\ step = "remoteSource" => DOMAIN remoteSourcesMapRef # {}
    /\ step = "scheduledSource" => sourcesRef # {}
    /\ links' = LinksAfterTeardown(StepNo(step))
    /\ inputStreamsRef' = IF StepNo(step) > 5 THEN {} ELSE inputStreamsRef
    /\ remoteSourcesMapRef' = IF StepNo(step) > 6 THEN EmptyMap ELSE remoteSourcesMapRef
    /\ UNCHANGED <<isConnected, error, inputAudioContextRef, inputMixerRef, sessionPromiseRef, currentSessionRef, frameIntervalRef, isOutputMuted, apiKey>>
    /\ released' = SelectSeq(DisconnectOrder, LAMBDA st : StepApplies(st) /\ StepNo(st) <= StepNo(step))
    /\ UNCHANGED <<expectedLife, lifeOps, lastDamageCall, damageOps, windows, uncaught>>
    /\ UNCHANGED <<dbVars, gameVars, audioVars, msgVars, peerVars>>
    /\ UNCHANGED inbox

\* ------------------------------------------------------------------------
\* Catalog and board (part_001:174-186, useLiveSession.ts:557-613)
\* ------------------------------------------------------------------------
\* db.cards holds two cards; the agent names cards in any casing.
Catalog == {"Sol Ring", "Forest"}

CardInputs == {"Sol Ring", "sol ring", "Black Lotus"}

\* getCardByName: exact match first, then a case-insensitive scan; "undefined" if absent.
getCardByName(name) ==
    IF name \in Catalog THEN name
    ELSE IF \E c \in Catalog : toLowerCase(c) = toLowerCase(name)
         THEN CHOOSE c \in Catalog : toLowerCase(c) = toLowerCase(name)
         ELSE "undefined"

Includes_Never(lowerStatus, part) == FALSE

\* lowerStatus.includes(part) for the status texts the model feeds in.
Includes(lowerStatus, part) ==
    CASE part = "tap" -> lowerStatus \in {"tapped", "untapped", "tap", "untap"}
      [] part = "untap" -> lowerStatus \in {"untapped", "untap"}
      [] OTHER -> FALSE

RemoveAt(seq, index) == [i \in 1..(Len(seq) - 1) |-> IF i < index THEN seq[i] ELSE seq[i + 1]]

FindByName_Last(playerBoard, cardName) ==
    LET hits == {i \in 1..Len(playerBoard) : toLowerCase(playerBoard[i].name) = toLowerCase(cardName)}
    IN IF hits = {} THEN 0 ELSE CHOOSE i \in hits : \A j \in hits : i >= j

\* playerBoard.findIndex(c => c.name.toLowerCase() === cardName.toLowerCase()); 0 for -1
FindByName(playerBoard, cardName) ==
    LET hits == {i \in 1..Len(playerBoard) : toLowerCase(playerBoard[i].name) = toLowerCase(cardName)}
    IN IF hits = {} THEN 0 ELSE Min(hits)

UpdateStatus_Fresh(targetCard, status, statusOperation) ==
    [targetCard EXCEPT !.tapped = FALSE, !.statuses = <<status>>]

UpdateStatus_ByOperation(targetCard, status, statusOperation) ==
    LET op == IF statusOperation = "" THEN "add" ELSE statusOperation
        lowerStatus == toLowerCase(status)
    IN IF Includes(lowerStatus, "tap") \/ Includes(lowerStatus, "untap")
       THEN [targetCard EXCEPT !.tapped = (op = "add") /\ ~Includes(lowerStatus, "untap")]
       ELSE targetCard

\* The status part of update_status on one card (useLiveSession.ts:584-608)
UpdateStatus(targetCard, status, statusOperation) ==
    LET op == IF statusOperation = "" THEN "add" ELSE statusOperation
        lowerStatus == toLowerCase(status)
    IN IF Includes(lowerStatus, "tap") \/ Includes(lowerStatus, "untap")
       THEN [targetCard EXCEPT !.tapped = ~Includes(lowerStatus, "untap")]
       ELSE IF op = "add"
            THEN IF status \in SeqRange(targetCard.statuses) THEN targetCard
                 ELSE [targetCard EXCEPT !.statuses = Append(targetCard.statuses, status)]
            ELSE [targetCard EXCEPT !.statuses = FilterOut(targetCard.statuses, status)]

ManageBoard_SameId(prev, args, card, instanceId) ==
    LET playerName == args.playerName
        playerBoard == IF playerName \in DOMAIN prev THEN prev[playerName] ELSE <<>>
        newCard == [instanceId |-> 1, name |-> card, controller |-> playerName, tapped |-> FALSE, statuses |-> <<>>]
    IN IF args.action = "play" /\ card # "undefined"
       THEN Put(prev, playerName, Append(playerBoard, newCard))
       ELSE prev

\* The setBattlefield updater of manage_board (useLiveSession.ts:557-613)
ManageBoard(prev, args, card, instanceId) ==
    LET playerName == args.playerName
        playerBoard == IF playerName \in DOMAIN prev THEN prev[playerName] ELSE <<>>
        index == FindByName(playerBoard, args.cardName)
        newCard == [instanceId |-> instanceId, name |-> card, controller |-> playerName, tapped |-> FALSE, statuses |-> <<>>]
    IN IF args.action = "play" /\ card # "undefined"
       THEN Put(prev, playerName, Append(playerBoard, newCard))
       ELSE IF args.action = "remove"
            THEN IF index > 0 THEN Put(prev, playerName, RemoveAt(playerBoard, index)) ELSE prev
            ELSE IF args.action = "update_status" /\ args.status # ""
                 THEN IF index > 0
                      THEN Put(prev, playerName, [playerBoard EXCEPT ![index] = UpdateStatus(playerBoard[index], args.status, args.statusOperation)])
                      ELSE prev
                 ELSE prev

\* playerBoard.findIndex(c => c.instanceId === instanceId); 0 for -1
FindById(playerBoard, instanceId) ==
    LET hits == {i \in 1..Len(playerBoard) : playerBoard[i].instanceId = instanceId}
    IN IF hits = {} THEN 0 ELSE Min(hits)

\* The setBattlefield updater of toggleCardTap (useLiveSession.ts:310-334)
ToggleTap(prev, playerName, instanceId) ==
    LET playerBoard == IF playerName \in DOMAIN prev THEN prev[playerName] ELSE <<>>
        index == FindById(playerBoard, instanceId)
    IN IF index > 0
       THEN Put(prev, playerName, [playerBoard EXCEPT ![index].tapped = ~playerBoard[index].tapped])
       ELSE prev

\* The setBattlefield updater of manualUpdateStatus (useLiveSession.ts:339-377)
ManualStatus_Append(prev, playerName, instanceId, status, operation) ==
    LET playerBoard == IF playerName \in DOMAIN prev THEN prev[playerName] ELSE <<>>
        index == FindById(playerBoard, instanceId)
        card == playerBoard[index]
        statuses == IF operation = "add" THEN Append(card.statuses, status) ELSE FilterOut(card.statuses, status)
    IN IF index > 0
       THEN Put(prev, playerName, [playerBoard EXCEPT ![index].statuses = statuses])
       ELSE prev

ManualStatus(prev, playerName, instanceId, status, operation) ==
    LET playerBoard == IF playerName \in DOMAIN prev THEN prev[playerName] ELSE <<>>
        index == FindById(playerBoard, instanceId)
        card == playerBoard[index]
        statuses == IF operation = "add"
                    THEN IF status \in SeqRange(card.statuses) THEN card.statuses ELSE Append(card.statuses, status)
                    ELSE FilterOut(card.statuses, status)
    IN IF index > 0
       THEN Put(prev, playerName, [playerBoard EXCEPT ![index].statuses = statuses])
       ELSE prev

\* toggleCardTap (useLiveSession.ts:309-336): a click on a card of the board.
toggleCardTap(playerName, instanceId) ==
    /\ playerName \in DOMAIN battlefield
    /\ FindById(battlefield[playerName], instanceId) > 0
    /\ battlefield' = ToggleTap(battlefield, playerName, instanceId)
    /\ UNCHANGED <<sessionPlayers, nextInstance, gameFormat, customRules, activePlayersList, currentLife, commanderDamage, manualRegs, phase>>
    /\ UNCHANGED <<dbVars, sessVars, audioVars, msgVars, peerVars, histVars>>
    /\ RunBroadcastEffect

\* manualUpdateStatus (useLiveSession.ts:338-379): the status menu of a card.
manualUpdateStatus(playerName, instanceId, status, operation) ==
    /\ playerName \in DOMAIN battlefield
    /\ FindById(battlefield[playerName], instanceId) > 0
    /\ battlefield' = ManualStatus(battlefield, playerName, instanceId, status, operation)
    /\ battlefield' # battlefield
    /\ UNCHANGED <<sessionPlayers, nextInstance, gameFormat, customRules, activePlayersList, currentLife, commanderDamage, manualRegs, phase>>
    /\ UNCHANGED <<dbVars, sessVars, audioVars, msgVars, peerVars, histVars>>
    /\ RunBroadcastEffect

\* ------------------------------------------------------------------------
\* Tool calls (useLiveSession.ts:36-123)
\* ------------------------------------------------------------------------
RegisterPlayers(names) == [name |-> "register_players", args |-> [playerNames |-> names]]

SetGameFormat(format) == [name |-> "set_game_format", args |-> [format |-> format]]

SetCustomRules(rules) == [name |-> "set_custom_rules", args |-> [rules |-> rules]]

ManageBoardCall(action, cardName, playerName, status, statusOperation) == [name |-> "manage_board", args |-> [action |-> action, cardName |-> cardName, playerName |-> playerName, status |-> status, statusOperation |-> statusOperation]]

GetPlayerStats(player1, player2, mode) == [name |-> "get_player_stats", args |-> [player1 |-> player1, player2 |-> player2, mode |-> mode]]

RecordWin(winnerName) == [name |-> "record_win", args |-> [winnerName |-> winnerName]]

UnknownTool == [name |-> "summon_judge", args |-> [x |-> 0]]

\* A message of the agent: its function calls (empty: no toolCall), the duration
\* of its audio chunk (0: none) and its interrupted flag.
Message(calls, audio, interrupted) == [calls |-> calls, audio |-> audio, interrupted |-> interrupted]

\* currentPlayers.find(p => p.name.toLowerCase() === winnerName.toLowerCase()); 0 if none
FindWinner(currentPlayers, winnerName) ==
    LET hits == {i \in 1..Len(currentPlayers) : toLowerCase(currentPlayers[i].name) = toLowerCase(winnerName)}
    IN IF hits = {} THEN 0 ELSE Min(hits)

\* Whether the dispatch of call c reaches an `await` on the store
\* (useLiveSession.ts:530-649): every known tool does, except record_win for a
\* winner outside the roster.
Awaits(c, roster) ==
    CASE c.name \in {"register_players", "set_game_format", "set_custom_rules", "manage_board", "get_player_stats"} -> TRUE
      [] c.name = "record_win" -> FindWinner(roster, c.args.winnerName) > 0
      [] OTHER -> FALSE

\* The response pushed for call c (useLiveSession.ts:651-655)
Response(c, result) == [id |-> c.id, name |-> c.name, result |-> result]

\* The result of a call that does not await.
SyncResult(c) == IF c.name = "record_win" THEN "error: winner not found" ELSE "error: unknown tool"

\* The loop over functionCalls from call j up to the next await
\* (useLiveSession.ts:527-656): i is the call it stops at, Len(calls) + 1 when done.
RECURSIVE RunToAwait(_, _, _, _)
RunToAwait(calls, j, responses, roster) ==
    IF j > Len(calls) \/ Awaits(calls[j], roster) THEN [i |-> j, responses |-> responses]
    ELSE RunToAwait(calls, j + 1, Append(responses, Response(calls[j], SyncResult(calls[j]))), roster)

\* db.getPlayerStats (part_001:240-274): null unless both players have a profile.
getPlayerStats(player1Name, player2Name) ==
    IF /\ \E i \in 1..Len(players) : toLowerCase(players[i].name) = toLowerCase(player1Name)
       /\ \E i \in 1..Len(players) : toLowerCase(players[i].name) = toLowerCase(player2Name)
    THEN "stats" ELSE "null"

\* The result of an awaiting call once the store has answered.
AsyncResult(c) ==
    CASE c.name = "get_player_stats" ->
            IF getPlayerStats(c.args.player1, c.args.player2) = "null" THEN "error: players not found" ELSE "text"
      [] OTHER -> "success"

\* What a record_win call passes to db.recordMatchResult, computed before the
\* await from sessionPlayersRef (useLiveSession.ts:635-644).
WinArgs(c, roster) ==
    LET w == FindWinner(roster, c.args.winnerName)
        loserIx == {i \in 1..Len(roster) : roster[i].id # roster[w].id}
    IN [winner |-> roster[w].name,
        losers |-> {roster[i].name : i \in loserIx},
        type |-> IF Len(roster) = 2 THEN "1v1" ELSE "multiplayer"]

\* What the dispatch does before the await of call c: the state it sets, the
\* arguments it captures.
Captured(c, roster) == IF c.name = "record_win" THEN WinArgs(c, roster) ELSE [winner |-> "", losers |-> {}, type |-> ""]

SetToSeq(S) == CHOOSE q \in [1..Cardinality(S) -> S] : \A x \in S : \E i \in 1..Cardinality(S) : q[i] = x

\* db.recordMatchResult (part_001:218-235)
recordMatchResult(w) ==
    LET r == registerSessionPlayers(players, <<w.winner>> \o SetToSeq(w.losers), <<>>)
        winners == {i \in 1..Len(r.profiles) : toLowerCase(r.profiles[i].name) = toLowerCase(w.winner)}
        losers == {r.profiles[i].id : i \in {j \in 1..Len(r.profiles) : \E ln \in w.losers : toLowerCase(ln) = toLowerCase(r.profiles[j].name)}}
    IN /\ players' = r.players
       /\ matches' = IF winners # {} /\ losers # {}
                     THEN Append(matches, [winner_id |-> r.profiles[Min(winners)].id, loser_ids |-> losers, match_type |-> w.type])
                     ELSE matches

\* The store operation of call c of handler h and the continuation up to the
\* response (useLiveSession.ts:530-649), on the store and the game state.
ToolEffect(h, c) ==
    CASE c.name = "register_players" ->
            LET r == registerSessionPlayers(players, c.args.playerNames, <<>>)
            IN /\ players' = r.players
               /\ ApplyRoster(r.profiles)
               /\ UNCHANGED <<matches, savedSettings, nextInstance>>
      [] c.name = "set_game_format" ->
            /\ savedSettings' = [format |-> c.args.format, customRules |-> links[handlers[h].link].capRules]
            /\ UNCHANGED <<players, matches, sessionPlayers, battlefield, nextInstance, currentLife, activePlayersList, expectedLife>>
      [] c.name = "set_custom_rules" ->
            /\ savedSettings' = [format |-> links[handlers[h].link].capFormat, customRules |-> c.args.rules]
            /\ UNCHANGED <<players, matches, sessionPlayers, battlefield, nextInstance, currentLife, activePlayersList, expectedLife>>
      [] c.name = "manage_board" ->
            /\ battlefield' = ManageBoard(battlefield, c.args, getCardByName(c.args.cardName), nextInstance)
            /\ nextInstance' = IF c.args.action = "play" /\ getCardByName(c.args.cardName) # "undefined" THEN nextInstance + 1 ELSE nextInstance
            /\ UNCHANGED <<players, matches, savedSettings, sessionPlayers, currentLife, activePlayersList, expectedLife>>
      [] c.name = "record_win" ->
            /\ recordMatchResult(handlers[h].captured)
            /\ UNCHANGED <<savedSettings, sessionPlayers, battlefield, nextInstance, currentLife, activePlayersList, expectedLife>>
      [] OTHER ->
            UNCHANGED <<players, matches, savedSettings, sessionPlayers, battlefield, nextInstance, currentLife, activePlayersList, expectedLife>>

\* ------------------------------------------------------------------------
\* onmessage (useLiveSession.ts:523-689)
\* ------------------------------------------------------------------------
\* A handler is one invocation of onmessage: pc "db" while it awaits the store
\* for calls[i], "done" when it has returned, "threw" when a rejected await
\* ended it.  decodeAudioData (useLiveSession.ts:192-203) is an async function
\* without an await of its own: the handler resumes from `await decodeAudioData`
\* in the microtask that follows, before any other message, timer or store
\* event, so the audio part runs in the turn that reaches it.

\* The start a chunk is given (useLiveSession.ts:672, 678), no mutation of the
\* watermark between the two lines.
ScheduleStart == Max2(nextStartTimeRef, now)

NextWatermark_NoAdvance(start, duration) == start

\* The watermark after a chunk (useLiveSession.ts:679)
NextWatermark(start, duration) == start + duration

Audible_Always == TRUE

\* "Only play if not muted" (useLiveSession.ts:670)
Audible == ~isOutputMuted

\* Whether the frame interval of link k sends its frames (useLiveSession.ts:476-520)
\* and whether its script processor sends the mixed input (411-425): both send
\* through sessionPromiseRef whenever it is set; the processor runs from the
\* grant of the microphone until its context is closed.
SendsFrames(k) == links[k].timer /\ sessionPromiseRef # 0

SendsAudioInput(k) == links[k].pc \notin {"mic", "failed"} /\ ~links[k].ctxClosed /\ sessionPromiseRef # 0

\* The handler from call j on, in the same turn: the calls that do not await,
\* then either the next await or the tool response (useLiveSession.ts:658-662),
\* the audio part (665-682) and the interrupted part (684-688).
Proceed(hs, h, j, responses, roster) ==
    LET rec == hs[h]
        run == RunToAwait(rec.calls, j, responses, roster)
        more == run.i <= Len(rec.calls)
        nxt == rec.calls[run.i]
        plays == ~more /\ rec.audio > 0 /\ inputAudioContextRef # 0 /\ Audible
        source == [msg |-> h, start |-> ScheduleStart, dur |-> rec.audio]
        cancels == ~more /\ rec.interrupted
    IN /\ gameFormat' = IF more /\ nxt.name = "set_game_format" THEN nxt.args.format ELSE gameFormat
       /\ customRules' = IF more /\ nxt.name = "set_custom_rules" THEN nxt.args.rules ELSE customRules
       /\ toolResponses' = IF ~more /\ Len(rec.calls) > 0 /\ sessionPromiseRef # 0
                           THEN Append(toolResponses, [session |-> sessionPromiseRef, functionResponses |-> run.responses])
                           ELSE toolResponses
       /\ handlers' = [hs EXCEPT ![h] = [rec EXCEPT !.pc = IF more THEN "db" ELSE "done",
                                                   !.i = run.i,
                                                   !.responses = run.responses,
                                                   !.captured = IF more THEN Captured(nxt, roster) ELSE rec.captured]]
       /\ nextStartTimeRef' = IF cancels THEN 0
                              ELSE IF plays THEN NextWatermark(ScheduleStart, rec.audio)
                              ELSE nextStartTimeRef
       /\ sourcesRef' = IF cancels THEN {} ELSE IF plays THEN sourcesRef \cup {source} ELSE sourcesRef
       /\ windows' = IF cancels THEN {} ELSE IF plays THEN windows \cup {source} ELSE windows

\* A message arrives on the open session of link k.
onmessage(k, m) ==
    /\ k \in 1..Len(links)
    /\ links[k].pc = "open"
    /\ Len(handlers) < MaxMsgs
    /\ LET n == Len(m.calls)
           calls == [i \in 1..n |-> [id |-> nextCallId + i - 1, name |-> m.calls[i].name, args |-> m.calls[i].args]]
           rec == [link |-> k, calls |-> calls, audio |-> m.audio, interrupted |-> m.interrupted,
                   pc |-> "start", i |-> 1, responses |-> <<>>, captured |-> Captured(UnknownTool, <<>>)]
       IN /\ nextCallId' = nextCallId + n
          /\ Proceed(Append(handlers, rec), Len(handlers) + 1, 1, <<>>, sessionPlayers)
    /\ UNCHANGED <<sessionPlayers, battlefield, nextInstance, activePlayersList, currentLife, commanderDamage, manualRegs, phase>>
    /\ UNCHANGED <<expectedLife, lifeOps, lastDamageCall, damageOps, uncaught, released>>
    /\ UNCHANGED <<now>>
    /\ UNCHANGED <<dbVars, sessVars, peerVars>>
    /\ RunBroadcastEffect

\* The store answers the await of handler h: the continuation of that call, its
\* response, and the handler up to its next await.
storeResolved(h) ==
    /\ h \in 1..Len(handlers)
    /\ handlers[h].pc = "db"
    /\ LET rec == handlers[h]
           c == rec.calls[rec.i]
       IN /\ ToolEffect(h, c)
          /\ Proceed(handlers, h, rec.i + 1, Append(rec.responses, Response(c, AsyncResult(c))), sessionPlayers')
    /\ UNCHANGED <<commanderDamage, manualRegs, phase>>
    /\ UNCHANGED <<lifeOps, lastDamageCall, damageOps, uncaught, released>>
    /\ UNCHANGED <<now, nextCallId>>
    /\ UNCHANGED <<sessVars, peerVars>>
    /\ RunBroadcastEffect

\* The store rejects the await of handler h: onmessage has no try/catch, so the
\* rejection ends the handler (useLiveSession.ts:523-663).
storeRejected(h) ==
    /\ h \in 1..Len(handlers)
    /\ handlers[h].pc = "db"
    /\ handlers' = [handlers EXCEPT ![h].pc = "threw"]
    /\ UNCHANGED <<toolResponses, nextCallId>>
    /\ UNCHANGED <<dbVars, gameVars, sessVars, audioVars, peerVars, histVars>>
    /\ UNCHANGED inbox

\* The output context's clock advances.
tick ==
    /\ now < MaxTime
    /\ Len(links) > 0
    /\ now' = now + 1
    /\ UNCHANGED <<nextStartTimeRef, sourcesRef>>
    /\ UNCHANGED <<dbVars, gameVars, sessVars, msgVars, peerVars, histVars>>
    /\ UNCHANGED inbox

\* 'ended' of a source that has played to its end (useLiveSession.ts:677)
ended(source) ==
    /\ source \in sourcesRef
    /\ source.start + source.dur <= now
    /\ sourcesRef' = sourcesRef \ {source}
    /\ UNCHANGED <<now, nextStartTimeRef>>
    /\ UNCHANGED <<dbVars, gameVars, sessVars, msgVars, peerVars, histVars>>
    /\ UNCHANGED inbox

\* setIsOutputMuted and the effect that copies it to isOutputMutedRef
\* (useLiveSession.ts:135, 160-162)
setIsOutputMuted(muted) ==
    /\ isOutputMuted # muted
    /\ isOutputMuted' = muted
    /\ UNCHANGED <<isConnected, error, links, inputAudioContextRef, inputMixerRef, sessionPromiseRef, currentSessionRef, frameIntervalRef, inputStreamsRef, remoteSourcesMapRef, apiKey>>
    /\ UNCHANGED <<dbVars, gameVars, audioVars, msgVars, peerVars, histVars>>
    /\ UNCHANGED inbox

\* ------------------------------------------------------------------------
\* Initial state: the hooks as constructed (useState/useRef initial values),
\* an empty profile store.
\* ------------------------------------------------------------------------
NoCall == [victim |-> "", attacker |-> "", amount |-> 0, prev |-> 0]

\* Everything but the agent session.
InitRest ==
    /\ players = <<>>
    /\ matches = <<>>
    /\ savedSettings = [format |-> "Commander", customRules |-> ""]
    /\ sessionPlayers = <<>>
    /\ battlefield = EmptyMap
    /\ nextInstance = 1
    /\ gameFormat = "Commander"
    /\ customRules = ""
    /\ activePlayersList = <<>>
    /\ currentLife = EmptyMap
    /\ commanderDamage = EmptyMap
    /\ manualRegs = <<>>
    /\ error = "null"
    /\ remoteSourcesMapRef = EmptyMap
    /\ isOutputMuted = FALSE
    /\ now = 0
    /\ nextStartTimeRef = 0
    /\ sourcesRef = {}
    /\ handlers = <<>>
    /\ toolResponses = <<>>
    /\ nextCallId = 1
    /\ connections = <<>>
    /\ remoteStreams = <<>>
    /\ openConns = {}
    /\ pendingConns = {}
    /\ inbox = EmptyMap
    /\ phase = "Main 1"
    /\ nextConn = 1
    /\ expectedLife = EmptyMap
    /\ lifeOps = 0
    /\ lastDamageCall = NoCall
    /\ damageOps = 0
    /\ windows = {}
    /\ uncaught = {}
    /\ released = <<>>

\* The session as constructed.
InitIdle ==
    /\ isConnected = FALSE
    /\ links = <<>>
    /\ inputAudioContextRef = 0
    /\ inputMixerRef = 0
    /\ sessionPromiseRef = 0
    /\ currentSessionRef = 0
    /\ frameIntervalRef = 0
    /\ inputStreamsRef = {}

\* The start screen, before a mode is chosen.
InitStart ==
    /\ appMode = "null"
    /\ peerId = <<>>
    /\ roomIdInput = <<>>
    /\ hostId = <<>>
    /\ hubError = ""
    /\ spoke = SpokeStart

\* Announcer mode chosen and the hub's Peer open: selectMode("Announcer"), peerOpen(1234).
InitMounted ==
    /\ appMode = "Announcer"
    /\ peerId = HubIdentity(1234)
    /\ roomIdInput = <<>>
    /\ hostId = <<>>
    /\ hubError = ""
    /\ spoke = SpokeStart

Init ==
    /\ InitRest
    /\ InitIdle
    /\ InitMounted
    /\ apiKey = TRUE

\* The app as started.
InitApp ==
    /\ InitRest
    /\ InitIdle
    /\ InitStart
    /\ apiKey = TRUE

\* A build without a credential.
InitNoKey ==
    /\ InitRest
    /\ InitIdle
    /\ InitMounted
    /\ apiKey = FALSE

\* The state one connect() leads to from Init once the microphone is granted
\* and the session has opened: connect, getUserMediaResolved(1), onopen(1).
InitOpen ==
    /\ InitRest
    /\ InitMounted
    /\ isConnected = TRUE
    /\ links = <<[pc |-> "open", ctxClosed |-> FALSE, micLive |-> TRUE, timer |-> TRUE, cancelled |-> FALSE, capFormat |-> "Commander", capRules |-> ""]>>
    /\ inputAudioContextRef = 1
    /\ inputMixerRef = 1
    /\ sessionPromiseRef = 1
    /\ currentSessionRef = 1
    /\ frameIntervalRef = 1
    /\ inputStreamsRef = {1}
    /\ apiKey = TRUE

\* ------------------------------------------------------------------------
\* Specifications
\* ------------------------------------------------------------------------
\* Manual roster editing with the life tracker.
NextLife ==
    \/ \E n \in NameInputs : addManualPlayer(n)
    \/ \E n \in NameInputs : removeManualPlayer(n)
    \/ \E k \in 1..MaxPending : setManualPlayers(k)
    \/ \E n \in NameInputs, d \in LifeDeltas : adjustLife(n, d)

SpecLife == Init /\ [][NextLife]_vars

\* Manual roster editing with the commander-damage tracker.
DamageNames == {"Alice", "Bob"}

NextDamage ==
    \/ \E n \in DamageNames : addManualPlayer(n)
    \/ \E n \in DamageNames : removeManualPlayer(n)
    \/ \E k \in 1..MaxPending : setManualPlayers(k)
    \/ \E v \in DamageNames, a \in DamageNames, d \in DamageDeltas : adjustCommanderDamage(v, a, d)

SpecDamage == Init /\ [][NextDamage]_vars

\* The agent session lifecycle with the peer mesh and the input mixer.
NextSession ==
    \/ connect
    \/ \E k \in 1..MaxLinks : getUserMediaResolved(k)
    \/ \E k \in 1..MaxLinks : getUserMediaRejected(k)
    \/ \E k \in 1..MaxLinks : onopen(k)
    \/ \E k \in 1..MaxLinks : onclose(k)
    \/ disconnect
    \/ \E p \in PeerIds : setupDataConnection(p)
    \/ \E c \in pendingConns : onConnOpen(c)
    \/ \E p \in PeerIds, audio \in BOOLEAN : onCallStream(p, audio)
    \/ \E c \in openConns : onConnClose(c)

SpecSession == Init /\ [][NextSession]_vars

\* The messages fed to the audio scheduler: chunks of two durations, an
\* interruption with and without a chunk, and chunks that come with a tool call
\* (one that awaits the store, one that does not).
AudioMsgs ==
    {Message(<<>>, 1, FALSE), Message(<<>>, 2, FALSE), Message(<<>>, 0, TRUE), Message(<<>>, 1, TRUE),
     Message(<<GetPlayerStats("Alice", "Bob", "total")>>, 1, FALSE), Message(<<UnknownTool>>, 2, FALSE)}

\* One open session receiving audio.
NextAudio ==
    \/ \E m \in AudioMsgs : onmessage(1, m)
    \/ \E h \in 1..MaxMsgs : storeResolved(h)
    \/ tick
    \/ \E source \in sourcesRef : ended(source)
    \/ \E muted \in BOOLEAN : setIsOutputMuted(muted)

SpecAudio == InitOpen /\ [][NextAudio]_vars

\* The messages fed to tool dispatch: every tool alone, and pairs in one message.
ToolCalls ==
    {RegisterPlayers(<<"Alice", "Bob">>), SetGameFormat("Modern"), SetCustomRules("No infinite combos"),
     ManageBoardCall("play", "Sol Ring", "Alice", "", ""), GetPlayerStats("Alice", "Bob", "total"),
     RecordWin("Alice"), UnknownTool}

ToolMsgs ==
    {Message(<<c>>, 0, FALSE) : c \in ToolCalls}
    \cup {Message(<<UnknownTool, RecordWin("Alice")>>, 0, FALSE),
          Message(<<RegisterPlayers(<<"Alice", "Bob">>), RecordWin("alice")>>, 0, FALSE)}

\* One open session receiving tool calls; the store answers or rejects.
NextTools ==
    \/ \E m \in ToolMsgs : onmessage(1, m)
    \/ \E h \in 1..MaxMsgs : storeResolved(h)
    \/ \E h \in 1..MaxMsgs : storeRejected(h)

SpecTools == InitOpen /\ [][NextTools]_vars

\* The messages fed to the board: plays for a roster and a non-roster name,
\* a removal, a status update, a registration in another casing.
BoardMsgs ==
    {Message(<<ManageBoardCall("play", "sol ring", n, "", "")>>, 0, FALSE) : n \in {"Alice", "Bob"}}
    \cup {Message(<<ManageBoardCall("remove", "Sol Ring", "Alice", "", "")>>, 0, FALSE),
          Message(<<ManageBoardCall("update_status", "Sol Ring", "Alice", "tapped", "add")>>, 0, FALSE),
          Message(<<RegisterPlayers(<<"ALICE", "Bob">>)>>, 0, FALSE)}

\* Roster and board edited by hand and by the agent, with disconnect.
NextBoard ==
    \/ connect
    \/ \E k \in 1..MaxLinks : getUserMediaResolved(k)
    \/ \E k \in 1..MaxLinks : onopen(k)
    \/ disconnect
    \/ \E n \in {"Alice", "ALICE"} : addManualPlayer(n)
    \/ \E n \in {"Alice", "ALICE"} : removeManualPlayer(n)
    \/ \E k \in 1..MaxPending : setManualPlayers(k)
    \/ \E k \in 1..MaxLinks, m \in BoardMsgs : onmessage(k, m)
    \/ \E h \in 1..MaxMsgs : storeResolved(h)

SpecBoard == Init /\ [][NextBoard]_vars

\* The registrations fed to the profile store: other casings and surrounding
\* whitespace of names the manual list registers, and a win to record.
RegisterMsgs ==
    {Message(<<RegisterPlayers(<<"ALICE", " Bob">>)>>, 0, FALSE),
     Message(<<RegisterPlayers(<<"Bob", "Alice">>)>>, 0, FALSE),
     Message(<<RecordWin("alice")>>, 0, FALSE)}

\* Manual and tool-driven registrations, in flight together.
NextRegister ==
    \/ \E n \in {"Alice", "ALICE"} : addManualPlayer(n)
    \/ \E k \in 1..MaxPending : setManualPlayers(k)
    \/ \E m \in RegisterMsgs : onmessage(1, m)
    \/ \E h \in 1..MaxMsgs : storeResolved(h)

SpecRegister == InitOpen /\ [][NextRegister]_vars

\* The instructions fed to the status update: one and two copies of a card
\* played, then tap synonyms and another label, added and removed.
StatusMsgs ==
    {Message(<<ManageBoardCall("play", "Sol Ring", "Alice", "", "")>>, 0, FALSE),
     Message(<<ManageBoardCall("play", "Sol Ring", "Alice", "", ""), ManageBoardCall("play", "sol ring", "Alice", "", "")>>, 0, FALSE)}
    \cup {Message(<<ManageBoardCall("update_status", "Sol Ring", "Alice", st, op)>>, 0, FALSE) :
              st \in {"tapped", "untapped", "flying"}, op \in {"add", "remove", ""}}

\* The agent edits one board.
NextStatus ==
    \/ \E m \in StatusMsgs : onmessage(1, m)
    \/ \E h \in 1..MaxMsgs : storeResolved(h)

SpecStatus == InitOpen /\ [][NextStatus]_vars

\* The agent session torn down, with a remote source on the mixer and a chunk
\* scheduled, each release step either returning or throwing.
NextTeardown ==
    \/ connect
    \/ \E k \in 1..MaxLinks : getUserMediaResolved(k)
    \/ \E k \in 1..MaxLinks : onopen(k)
    \/ \E k \in 1..MaxLinks : onclose(k)
    \/ disconnect
    \/ disconnectAgain
    \/ \E step \in TeardownSteps : disconnectThrew(step)
    \/ setupDataConnection("p1")
    \/ \E c \in pendingConns : onConnOpen(c)
    \/ onCallStream("p1", TRUE)
    \/ \E k \in 1..MaxLinks : onmessage(k, Message(<<>>, 1, FALSE))

SpecTeardown == Init /\ [][NextTeardown]_vars

\* A build without a credential: connect() is tried, the roster is edited by
\* hand, peers join and leave.
NextNoKey ==
    \/ connect
    \/ \E n \in DamageNames : addManualPlayer(n)
    \/ \E k \in 1..MaxPending : setManualPlayers(k)
    \/ setupDataConnection("p1")
    \/ \E c \in pendingConns : onConnOpen(c)
    \/ onCallStream("p1", TRUE)
    \/ \E muted \in BOOLEAN : setIsOutputMuted(muted)

SpecNoKey == InitNoKey /\ [][NextNoKey]_vars

\* The messages received while the output is muted or not: a chunk alone, a
\* chunk with a call that edits the board, a call alone.
MuteMsgs ==
    {Message(<<>>, 1, FALSE),
     Message(<<ManageBoardCall("play", "Sol Ring", "Alice", "", "")>>, 1, FALSE),
     Message(<<SetGameFormat("Modern")>>, 0, FALSE)}

\* One open session with the mute switch.
NextMute ==
    \/ \E m \in MuteMsgs : onmessage(1, m)
    \/ \E h \in 1..MaxMsgs : storeResolved(h)
    \/ \E muted \in BOOLEAN : setIsOutputMuted(muted)
    \/ tick

SpecMute == InitOpen /\ [][NextMute]_vars

\* The hub with its peers, a roster and the phase buttons, no agent session.
NextPeers ==
    \/ addManualPlayer("Alice")
    \/ \E k \in 1..MaxPending : setManualPlayers(k)
    \/ \E ph \in PhaseInputs : setPhase(ph)
    \/ \E p \in PeerIds : setupDataConnection(p)
    \/ \E c \in pendingConns : onConnOpen(c)
    \/ \E c \in openConns : onConnClose(c)

SpecPeers == Init /\ [][NextPeers]_vars

\* The same, with the steps that need no user: a channel that was offered
\* opens, a store lookup that was started resolves.
SpecPeersLive ==
    /\ SpecPeers
    /\ WF_vars(\E c \in pendingConns : onConnOpen(c))
    /\ WF_vars(\E k \in 1..MaxPending : setManualPlayers(k))

\* The manual game state with the channels of one peer, which stay.
NextSync ==
    \/ \E n \in DamageNames : addManualPlayer(n)
    \/ \E n \in DamageNames : removeManualPlayer(n)
    \/ \E k \in 1..MaxPending : setManualPlayers(k)
    \/ adjustLife("Alice", -1)
    \/ adjustCommanderDamage("Alice", "Bob", 1)
    \/ \E ph \in PhaseInputs : setPhase(ph)
    \/ setupDataConnection("p1")
    \/ \E c \in pendingConns : onConnOpen(c)

SpecSync == Init /\ [][NextSync]_vars

\* The hub with an open agent session, a roster and peers that come and go.
NextClose ==
    \/ addManualPlayer("Alice")
    \/ \E k \in 1..MaxPending : setManualPlayers(k)
    \/ \E p \in PeerIds : setupDataConnection(p)
    \/ \E c \in pendingConns : onConnOpen(c)
    \/ \E p \in PeerIds : onCallStream(p, TRUE)
    \/ \E c \in openConns : onConnClose(c)

SpecClose == InitOpen /\ [][NextClose]_vars

\* A hub and a joining device.
NextJoin ==
    \/ \E mode \in {"Announcer", "AR View"} : selectMode(mode)
    \/ \E n \in HubNumbers : peerOpen(n)
    \/ \E text \in RoomInputs : setRoomIdInput(text)
    \/ handleJoinGame
    \/ spokeJoins("p1")
    \/ \E c \in pendingConns : onConnOpen(c)
    \/ addManualPlayer("Alice")
    \/ \E k \in 1..MaxPending : setManualPlayers(k)

SpecJoin == InitApp /\ [][NextJoin]_vars

\* The hub's device from the start screen, with peers of the network.
NextOffline ==
    \/ \E mode \in {"Announcer", "AR View"} : selectMode(mode)
    \/ \E n \in HubNumbers : peerOpen(n)
    \/ \E p \in PeerIds : setupDataConnection(p)
    \/ \E c \in pendingConns : onConnOpen(c)
    \/ \E p \in PeerIds : onCallStream(p, TRUE)
    \/ addManualPlayer("Alice")
    \/ \E k \in 1..MaxPending : setManualPlayers(k)

SpecOffline == InitApp /\ [][NextOffline]_vars

\* A hub and a joining device from their start screens, with the answers of the
\* signalling server.
NextSpoke ==
    \/ selectMode("Announcer")
    \/ \E n \in HubNumbers : peerOpen(n)
    \/ peerIdTaken
    \/ \E text \in RoomInputs : setRoomIdInput(text)
    \/ handleJoinGame
    \/ streamAcquired
    \/ spokePeerOpen
    \/ spokeConnOpen
    \/ spokeConnError
    \/ spokePeerError("peer-unavailable")

SpecSpoke == InitApp /\ [][NextSpoke]_vars

\* The same, with the steps that do not wait for an answer of another device:
\* the camera is granted and the signalling server registers each Peer.
SpecSpokeLive ==
    /\ SpecSpoke
    /\ WF_vars(selectMode("Announcer"))
    /\ WF_vars(\E n \in HubNumbers : peerOpen(n))
    /\ WF_vars(streamAcquired)
    /\ WF_vars(spokePeerOpen)

\* The names the agent heard: one more than the table seats.
NineNames == <<"p1", "p2", "p3", "p4", "p5", "p6", "p7", "p8", "p9">>

RosterMsgs ==
    {Message(<<RegisterPlayers(NineNames)>>, 0, FALSE),
     Message(<<RegisterPlayers(<<"Alice", "Bob">>)>>, 0, FALSE),
     Message(<<RegisterPlayers(<<"Bob">>)>>, 0, FALSE)}

\* The roster edited by hand and registered by the agent.
NextRoster ==
    \/ \E n \in DamageNames : addManualPlayer(n)
    \/ \E n \in DamageNames : removeManualPlayer(n)
    \/ \E k \in 1..MaxPending : setManualPlayers(k)
    \/ \E m \in RosterMsgs : onmessage(1, m)
    \/ \E h \in 1..MaxMsgs : storeResolved(h)

SpecRoster == InitOpen /\ [][NextRoster]_vars

\* The agent plays a card and labels it in one message, labels and removes it
\* in others, while the cards are clicked by hand.
ManualMsgs ==
    {Message(<<ManageBoardCall("play", "Sol Ring", "Alice", "", ""), ManageBoardCall("update_status", "sol ring", "Alice", "Flying", "add")>>, 0, FALSE),
     Message(<<ManageBoardCall("play", "sol ring", "Alice", "", "")>>, 0, FALSE),
     Message(<<ManageBoardCall("remove", "Sol Ring", "Alice", "", "")>>, 0, FALSE)}

NextManual ==
    \/ \E m \in ManualMsgs : onmessage(1, m)
    \/ \E h \in 1..MaxMsgs : storeResolved(h)
    \/ \E id \in 1..2 : toggleCardTap("Alice", id)
    \/ \E id \in 1..2, op \in {"add", "remove"} : manualUpdateStatus("Alice", id, "Goaded", op)

SpecManual == InitOpen /\ [][NextManual]_vars

\* The agent plays the catalog card in either casing, twice in one message,
\* plays a card the catalog lacks, removes and labels a card, for a player
\* with or without a roster entry.
PlayMsgs ==
    {Message(<<ManageBoardCall("play", "Sol Ring", "Alice", "", ""), ManageBoardCall("play", "sol ring", "Alice", "", "")>>, 0, FALSE),
     Message(<<ManageBoardCall("play", "Black Lotus", "Alice", "", "")>>, 0, FALSE),
     Message(<<ManageBoardCall("play", "sol ring", "Bob", "", "")>>, 0, FALSE),
     Message(<<ManageBoardCall("remove", "Sol Ring", "Alice", "", "")>>, 0, FALSE),
     Message(<<ManageBoardCall("update_status", "Sol Ring", "Alice", "tapped", "add")>>, 0, FALSE),
     Message(<<RegisterPlayers(<<"Alice">>)>>, 0, FALSE)}

NextPlay ==
    \/ \E m \in PlayMsgs : onmessage(1, m)
    \/ \E h \in 1..MaxMsgs : storeResolved(h)

SpecPlay == InitOpen /\ [][NextPlay]_vars

\* The agent plays two different cards and a second copy of one of them, for
\* two players, and removes by a name in another casing, by a name that is on
\* the board once, and by a name the board lacks.
RemoveMsgs ==
    {Message(<<ManageBoardCall("play", "Forest", "Alice", "", ""), ManageBoardCall("play", "Sol Ring", "Alice", "", "")>>, 0, FALSE),
     Message(<<ManageBoardCall("play", "sol ring", "Alice", "", ""), ManageBoardCall("remove", "SOL RING", "Alice", "", "")>>, 0, FALSE),
     Message(<<ManageBoardCall("play", "Sol Ring", "Bob", "", "")>>, 0, FALSE),
     Message(<<ManageBoardCall("remove", "Forest", "Alice", "", "")>>, 0, FALSE),
     Message(<<ManageBoardCall("remove", "Black Lotus", "Alice", "", "")>>, 0, FALSE)}

NextRemove ==
    \/ \E m \in RemoveMsgs : onmessage(1, m)
    \/ \E h \in 1..MaxMsgs : storeResolved(h)

SpecRemove == InitOpen /\ [][NextRemove]_vars

\* No call of a handler is waiting for the store.
StoreIdle == \A g \in 1..Len(handlers) : handlers[g].pc # "db"

\* Format and rules set by the agent and by hand on one open session; the
\* fields are edited by hand while no save of the agent is under way, so that
\* the saves reach the store in the order the model resolves them.
SettingsMsgs ==
    {Message(<<SetGameFormat("Modern")>>, 0, FALSE),
     Message(<<SetCustomRules("No infinite combos")>>, 0, FALSE),
     Message(<<SetCustomRules("Free mulligan"), SetGameFormat("Standard")>>, 0, FALSE)}

NextSettings ==
    \/ \E m \in SettingsMsgs : onmessage(1, m)
    \/ \E h \in 1..MaxMsgs : storeResolved(h)
    \/ \E f \in {"Commander", "Pauper"} : StoreIdle /\ setManualFormat(f)
    \/ \E r \in {"", "Planechase"} : StoreIdle /\ setManualRules(r)

SpecSettings == InitOpen /\ [][NextSettings]_vars

\* The agent plays a card and labels it, adds the same label again, adds
\* another label and removes one, while the same labels are put and taken by
\* hand.
LabelMsgs ==
    {Message(<<ManageBoardCall("play", "Sol Ring", "Alice", "", ""), ManageBoardCall("update_status", "sol ring", "Alice", "Goaded", "add")>>, 0, FALSE),
     Message(<<ManageBoardCall("update_status", "Sol Ring", "Alice", "Goaded", "add")>>, 0, FALSE),
     Message(<<ManageBoardCall("update_status", "Sol Ring", "Alice", "Flying", "")>>, 0, FALSE),
     Message(<<ManageBoardCall("update_status", "Sol Ring", "Alice", "Goaded", "remove")>>, 0, FALSE)}

NextLabels ==
    \/ \E m \in LabelMsgs : onmessage(1, m)
    \/ \E h \in 1..MaxMsgs : storeResolved(h)
    \/ \E st \in {"Goaded", "Flying"}, op \in {"add", "remove"} : manualUpdateStatus("Alice", 1, st, op)

SpecLabels == InitOpen /\ [][NextLabels]_vars

\* ------------------------------------------------------------------------
\* Properties
\* ------------------------------------------------------------------------
\* The responses sent so far that carry call id `id`.
ResponsesFor(id) ==
    {<<r, q>> \in (1..Len(toolResponses)) \X (1..MaxCallsPerMsg) :
        q <= Len(toolResponses[r].functionResponses) /\ toolResponses[r].functionResponses[q].id = id}

\* C1: every tool call received from the agent is answered by exactly one
\* response carrying its id, also when the store operation it triggers fails
\* and when several calls arrive in one message.  A handler is the only sender
\* of the responses to its calls, so once it has ended each of its calls must
\* have exactly one response.
EveryCallAnsweredOnce ==
    \A h \in 1..Len(handlers) :
        handlers[h].pc \in {"done", "threw"} =>
            \A j \in 1..Len(handlers[h].calls) : Cardinality(ResponsesFor(handlers[h].calls[j].id)) = 1

\* C2: once disconnect() has run while a connect() call was still opening, that
\* call never has a running frame timer, a live microphone track or an open
\* session.
DisconnectStopsOpening ==
    \A k \in 1..Len(links) :
        links[k].cancelled => ~links[k].timer /\ ~links[k].micLive /\ links[k].pc # "open"

\* C3: the playback windows [start, start + dur) given to unmuted chunks through
\* the watermark are pairwise non-overlapping.
WindowsDisjoint ==
    \A w1 \in windows : \A w2 \in windows :
        w1 # w2 => (w1.start + w1.dur <= w2.start \/ w2.start + w2.dur <= w1.start)

\* Two chunks scheduled back to back after the clock has advanced.
WindowsDisjointWitness ==
    \E w1 \in windows : \E w2 \in windows :
        w1.msg < w2.msg /\ w1.start > 0 /\ w2.start = w1.start + w1.dur

\* C4: of two chunks, the one whose message arrived first gets the earlier
\* playback window, also when the handler of the earlier message is suspended
\* while the later message is handled.
ArrivalOrderPlayback ==
    \A w1 \in windows : \A w2 \in windows :
        w1.msg < w2.msg => w1.start + w1.dur <= w2.start

\* The peers with a source connected to the current input mixer, and the peers
\* with a live remote stream that carries an audio track.
MixerPeers == {p \in DOMAIN remoteSourcesMapRef : remoteSourcesMapRef[p].mixer = inputMixerRef}

AudioPeers == {remoteStreams[i].peerId : i \in {j \in 1..Len(remoteStreams) : remoteStreams[j].audio}}

\* C5: while the agent session is connected, the peers with an audio source on
\* the current input mixer are exactly the live remote streams with an audio
\* track.
MixerTracksPeers ==
    isConnected => MixerPeers = AudioPeers

\* C6: the connection list and the remote-stream list hold at most one entry
\* per peer id.
OneEntryPerPeer ==
    \A p \in PeerIds :
        /\ Cardinality({i \in 1..Len(connections) : connections[i].peer = p}) <= 1
        /\ Cardinality({i \in 1..Len(remoteStreams) : remoteStreams[i].peerId = p}) <= 1

\* C7: the keys of the battlefield map, of the life map and of the
\* commander-damage matrix are exactly the names of the current roster.
KeysAreRoster ==
    /\ DOMAIN battlefield = Names(sessionPlayers)
    /\ DOMAIN currentLife = Names(sessionPlayers)
    /\ DOMAIN commanderDamage = Names(sessionPlayers)

\* A registration completes: setManualPlayers or the register_players tool.
RegistrationStep ==
    \/ \E k \in 1..Len(manualRegs) : setManualPlayers(k)
    \/ \E h \in 1..Len(handlers) :
        /\ handlers[h].pc = "db"
        /\ handlers[h].calls[handlers[h].i].name = "register_players"
        /\ storeResolved(h)

\* C8: a registration leaves the life total and the board of every player who
\* was already in the roster as they were.
RegistrationKeepsPresent ==
    [][RegistrationStep =>
        \A n \in Names(sessionPlayers) \cap Names(sessionPlayers') :
            /\ n \in DOMAIN battlefield => battlefield'[n] = battlefield[n]
            /\ n \in DOMAIN currentLife => currentLife'[n] = currentLife[n]]_vars

\* C9: the life total of a roster player is the life it entered the roster with
\* (40 by default) plus the sum of the deltas of its adjustLife calls, whatever
\* the value passed through.
LifeIsSumOfDeltas ==
    \A n \in Names(sessionPlayers) : n \in DOMAIN currentLife /\ currentLife[n] = expectedLife[n]

\* C10: the stored commander damage of every pair is never below 0, and each
\* adjustCommanderDamage call sets it to max(0, previous + delta).
DamageClamped ==
    /\ \A v \in DOMAIN commanderDamage : \A a \in DOMAIN commanderDamage[v] : commanderDamage[v][a] >= 0
    /\ lastDamageCall # NoCall =>
          StoredDamage(lastDamageCall.victim, lastDamageCall.attacker)
              = Max2(0, lastDamageCall.prev + lastDamageCall.amount)

\* A call whose delta takes a positive value below 0: 0 is stored.
DamageClampedWitness ==
    /\ lastDamageCall # NoCall
    /\ lastDamageCall.prev > 0
    /\ lastDamageCall.prev + lastDamageCall.amount < 0
    /\ StoredDamage(lastDamageCall.victim, lastDamageCall.attacker) = 0

\* C11: a roster player is flagged lethal if and only if the damage stored
\* against it for at least one attacker is at least 21.
LethalIffStored ==
    \A v \in Names(sessionPlayers) :
        isLethal(v) <=> \E a \in NameInputs : StoredDamage(v, a) >= LethalDamage

\* +21 then -1 on one pair: the value is 20 and the flag is down again.
LethalIffStoredWitness ==
    /\ lastDamageCall # NoCall
    /\ lastDamageCall.prev = LethalDamage
    /\ lastDamageCall.amount = -1
    /\ lastDamageCall.victim \in Names(sessionPlayers)
    /\ StoredDamage(lastDamageCall.victim, lastDamageCall.attacker) = LethalDamage - 1
    /\ ~isLethal(lastDamageCall.victim)

\* C12: the store holds at most one profile per case-insensitive trimmed name,
\* and every registration returns the profile the first registration of that
\* name created (ids are the positions of creation).
OneProfilePerName ==
    /\ \A i \in 1..Len(players) : players[i].id = i /\ players[i].name = trim(players[i].name)
    /\ \A i \in 1..Len(players) : \A j \in 1..Len(players) :
          toLowerCase(players[i].name) = toLowerCase(players[j].name) => i = j
    /\ \A i \in 1..Len(sessionPlayers) :
          /\ sessionPlayers[i].id \in 1..Len(players)
          /\ players[sessionPlayers[i].id] = sessionPlayers[i]

\* A tool registration of "ALICE" and " Bob" completed after the manual
\* registration of "Alice": the profile of "Alice" is reused, "Bob" is created
\* trimmed.
OneProfilePerNameWitness ==
    /\ sessionPlayers = <<[id |-> 1, name |-> "Alice"], [id |-> 2, name |-> "Bob"]>>
    /\ Len(players) = 2
    /\ \E h \in 1..Len(handlers) :
          /\ handlers[h].pc = "done"
          /\ Len(handlers[h].calls) = 1
          /\ handlers[h].calls[1].name = "register_players"
          /\ handlers[h].calls[1].args.playerNames = <<"ALICE", " Bob">>

\* The status texts that name the tapped state.
TapSynonyms == {"tapped", "untapped", "tap", "untap"}

\* The manage_board call handler h is about to complete, if it is an
\* update_status with a tap synonym.
TapCallOf(h) == handlers[h].calls[handlers[h].i]

TapStep(h) ==
    /\ h \in 1..Len(handlers)
    /\ handlers[h].pc = "db"
    /\ TapCallOf(h).name = "manage_board"
    /\ TapCallOf(h).args.action = "update_status"
    /\ toLowerCase(TapCallOf(h).args.status) \in TapSynonyms
    /\ storeResolved(h)

\* C13: an update_status whose status is a tap/untap synonym changes only the
\* tapped boolean of the first card matching the name and adds no status with
\* that label; "tapped" with operation add sets tapped.
TapChangesOnlyTapped ==
    [][\A h \in 1..MaxMsgs : TapStep(h) =>
        LET args == TapCallOf(h).args
            p == args.playerName
            board == IF p \in DOMAIN battlefield THEN battlefield[p] ELSE <<>>
            ix == FindByName(board, args.cardName)
        IN IF ix = 0 THEN battlefield' = battlefield
           ELSE /\ DOMAIN battlefield' = DOMAIN battlefield
                /\ \A q \in DOMAIN battlefield : q # p => battlefield'[q] = battlefield[q]
                /\ Len(battlefield'[p]) = Len(board)
                /\ \A i \in 1..Len(board) : i # ix => battlefield'[p][i] = board[i]
                /\ battlefield'[p][ix] = [board[ix] EXCEPT !.tapped = battlefield'[p][ix].tapped]
                /\ (args.status = "tapped" /\ args.statusOperation = "add") => battlefield'[p][ix].tapped]_vars

\* play("Sol Ring") then update_status("tapped", add): one entry, tapped, no
\* status.
TapChangesOnlyTappedWitness ==
    /\ "Alice" \in DOMAIN battlefield
    /\ Len(battlefield["Alice"]) = 1
    /\ battlefield["Alice"][1].name = "Sol Ring"
    /\ battlefield["Alice"][1].tapped
    /\ battlefield["Alice"][1].statuses = <<>>
    /\ \E h \in 1..Len(handlers) :
          /\ handlers[h].pc = "done"
          /\ handlers[h].calls[1].args = [action |-> "update_status", cardName |-> "Sol Ring", playerName |-> "Alice", status |-> "tapped", statusOperation |-> "add"]

\* C14: when one release step of disconnect() throws, the remaining steps
\* still run: afterwards every capture track is stopped, the frame timer is
\* cleared and the state is disconnected.
TeardownExceptionSafe ==
    [][(\E step \in TeardownSteps : disconnectThrew(step)) =>
        /\ ~isConnected'
        /\ \A k \in 1..Len(links') : ~links'[k].timer /\ (k \in inputStreamsRef => ~links'[k].micLive)]_vars

\* The end state of disconnect(): not connected, no error, session closed, no
\* timer, contexts closed, no tracked stream, no mixer source, no scheduled
\* audio, empty roster and board.
TornDown ==
    /\ ~isConnected
    /\ error = "null"
    /\ LinksAfterDisconnect = links
    /\ inputStreamsRef = {}
    /\ remoteSourcesMapRef = EmptyMap
    /\ sourcesRef = {}
    /\ sessionPlayers = <<>>
    /\ battlefield = EmptyMap

\* C15: disconnect() invoked again in the end state of disconnect() leaves
\* the state as it is and raises no error.
DisconnectIdempotent ==
    [][(TornDown /\ disconnectAgain) => vars' = vars]_vars

\* C16: without a credential connect() acquires nothing: no context, no
\* microphone request, no session, no timer, and the connected flag stays
\* false; the error is reported.
NoKeyNoResource ==
    ~apiKey =>
        /\ links = <<>>
        /\ ~isConnected
        /\ inputAudioContextRef = 0 /\ inputMixerRef = 0
        /\ sessionPromiseRef = 0 /\ currentSessionRef = 0
        /\ frameIntervalRef = 0 /\ inputStreamsRef = {}
        /\ error \in {"null", MissingCredential}

\* connect() has been tried without a credential.
NoKeyNoResourceWitness ==
    ~apiKey /\ error = MissingCredential /\ links = <<>>

\* The handler h completes a manage_board play while the output is muted.
MutedPlayStep(h) ==
    /\ isOutputMuted
    /\ h \in 1..Len(handlers)
    /\ handlers[h].pc = "db"
    /\ handlers[h].calls[handlers[h].i].name = "manage_board"
    /\ storeResolved(h)

\* C17: the output-muted flag affects playback only.  While it is set no chunk
\* is scheduled; a tool call completing in that time is applied to the board
\* and answered; the session keeps sending frames and audio input; setting or
\* clearing the flag changes nothing else, the connection state included.
MuteOnlyPlayback ==
    /\ [](isConnected => SendsFrames(1) /\ SendsAudioInput(1))
    /\ [][/\ isOutputMuted => (windows' \subseteq windows /\ sourcesRef' \subseteq sourcesRef)
          /\ (\E muted \in BOOLEAN : setIsOutputMuted(muted)) =>
                UNCHANGED <<isConnected, error, links, inputAudioContextRef, inputMixerRef, sessionPromiseRef,
                            currentSessionRef, frameIntervalRef, inputStreamsRef, remoteSourcesMapRef,
                            dbVars, gameVars, audioVars, msgVars, peerVars>>
          /\ \A h \in 1..MaxMsgs : MutedPlayStep(h) =>
                /\ Len(battlefield'["Alice"]) = 1 + (IF "Alice" \in DOMAIN battlefield THEN Len(battlefield["Alice"]) ELSE 0)
                /\ Len(toolResponses') = Len(toolResponses) + 1
                /\ toolResponses'[Len(toolResponses')].functionResponses[1].id = handlers[h].calls[1].id]_vars

\* A chunk with a play received and completed while muted: the card is on the
\* board, the call is answered, nothing is scheduled.
MuteOnlyPlaybackWitness ==
    /\ isOutputMuted
    /\ windows = {}
    /\ "Alice" \in DOMAIN battlefield
    /\ \E h \in 1..Len(handlers) :
          /\ handlers[h].pc = "done"
          /\ handlers[h].audio > 0
          /\ Len(handlers[h].calls) = 1
          /\ ResponsesFor(handlers[h].calls[1].id) # {}

\* A step that commits a change of the broadcast state with a roster to send.
Broadcasts ==
    /\ <<sessionPlayers, battlefield, phase, currentLife, commanderDamage>>' #
         <<sessionPlayers, battlefield, phase, currentLife, commanderDamage>>
    /\ Len(sessionPlayers') > 0

\* The channels a step sends on.
SentOn == {c \in DOMAIN inbox' : c \notin DOMAIN inbox \/ inbox'[c] # inbox[c]}

\* C18: broadcast sends only on channels open at the time of the call, so
\* never on a channel that has closed or has not opened, and every channel
\* that is open then receives the message.
BroadcastOnOpenChannels ==
    [][/\ \A c \in SentOn : \E o \in openConns' : o.conn = c
       /\ Broadcasts => \A o \in openConns' : o.conn \in DOMAIN inbox' /\ inbox'[o.conn].players = sessionPlayers']_vars

\* C19: after a step that changes roster, board, phase, life or commander
\* damage, every peer with an open channel has received the snapshot of the
\* state the step commits.
SnapshotFollowsMutation ==
    [][<<sessionPlayers, battlefield, phase, currentLife, commanderDamage>>' #
         <<sessionPlayers, battlefield, phase, currentLife, commanderDamage>>
       => \A o \in {x \in openConns' : \E i \in 1..Len(connections') : connections'[i] = x} :
            /\ o.conn \in DOMAIN inbox'
            /\ inbox'[o.conn] = Snapshot(sessionPlayers', battlefield', phase', currentLife', commanderDamage')]_vars

\* The entries of peer q, in order.
EntriesOf(s, field, q) == SelectSeq(s, LAMBDA e : e[field] = q)

\* C20: the close of one peer's channel removes that peer's entries from the
\* connection list and the stream list and nothing else: the entries of the
\* other peers, the session's connection state, the roster and the board stay.
CloseIsolated ==
    [][\A c \in openConns : onConnClose(c) =>
          /\ EntriesOf(connections', "peer", c.peer) = <<>>
          /\ EntriesOf(remoteStreams', "peerId", c.peer) = <<>>
          /\ \A q \in PeerIds \ {c.peer} :
                /\ EntriesOf(connections', "peer", q) = EntriesOf(connections, "peer", q)
                /\ EntriesOf(remoteStreams', "peerId", q) = EntriesOf(remoteStreams, "peerId", q)
          /\ Len(connections') + Len(EntriesOf(connections, "peer", c.peer)) = Len(connections)
          /\ UNCHANGED <<isConnected, error, links, sessionPromiseRef, currentSessionRef, sessionPlayers, battlefield>>]_vars

\* The first channel has closed; the second peer, its channel and its stream
\* are still listed, the session is connected and the roster is not empty.
CloseIsolatedWitness ==
    /\ isConnected
    /\ Len(sessionPlayers) > 0
    /\ connections = <<[peer |-> "p2", conn |-> 2]>>
    /\ openConns = {[peer |-> "p2", conn |-> 2]}
    /\ pendingConns = {}
    /\ Len(remoteStreams) = 1
    /\ remoteStreams[1].peerId = "p2"

\* C21: a joining device given exactly the code the hub displays opens its
\* channel to the hub's identity.
CodeReachesHub ==
    (peerId # <<>> /\ roomIdInput = RoomCode(peerId) /\ hostId # <<>>) => hostId = peerId

\* C22: in Offline AR View mode the device stays off the mesh: no hub identity,
\* no inbound channel or call accepted, no snapshot sent.
OfflineStaysOffline ==
    appMode = "AR View" =>
        /\ peerId = <<>>
        /\ connections = <<>>
        /\ remoteStreams = <<>>
        /\ inbox = EmptyMap

\* C23: the session roster never holds more than 8 players.
RosterAtMostEight ==
    Len(sessionPlayers) <= MaxPlayers

\* C24: at most one agent session is open, at most one frame timer runs and
\* at most one microphone stream is live, also when connect() is invoked again
\* while an earlier call is opening or after a remote close.
AtMostOneLive ==
    /\ Cardinality({k \in 1..Len(links) : links[k].pc = "open"}) <= 1
    /\ Cardinality({k \in 1..Len(links) : links[k].timer}) <= 1
    /\ Cardinality({k \in 1..Len(links) : links[k].micLive}) <= 1

\* C25: once the transport has reported a session closed, its frame timer no
\* longer runs and no frame or audio buffer is sent on that session.
ClosedSessionSilent ==
    \A k \in 1..Len(links) :
        links[k].pc = "closed" =>
            /\ ~links[k].timer
            /\ ~(sessionPromiseRef = k /\ \E j \in 1..Len(links) : SendsFrames(j) \/ SendsAudioInput(j))

\* In the latest disconnect(), every call of kind a was made before every call of kind b.
ReleasedBefore(a, b) ==
    \A i, j \in 1..Len(released) : (released[i] = a /\ released[j] = b) => i < j

\* C26: disconnect() releases in this order: the frame timer, the session,
\* the capture tracks, the mixing-graph nodes, the scheduled audio buffers.
ReleaseOrder ==
    /\ ReleasedBefore("timer", "session")
    /\ ReleasedBefore("session", "tracks")
    /\ ReleasedBefore("tracks", "remoteSource")
    /\ ReleasedBefore("remoteSource", "scheduledSource")

\* The board of a player, empty if the player has none.
BoardOf(bf, playerName) == IF playerName \in DOMAIN bf THEN bf[playerName] ELSE <<>>

\* The handler h resumes from the catalog lookup of a manage_board call.
ManageStep(h) ==
    /\ h \in 1..Len(handlers)
    /\ handlers[h].pc = "db"
    /\ handlers[h].calls[handlers[h].i].name = "manage_board"
    /\ storeResolved(h)

\* What the call of handler h may change of the board it finds: a play appends
\* behind the cards that are there, a remove takes out the first card of the
\* name, a status update keeps every card's identity and tapped flag and every
\* label it has, and labels the first card of the name.
KeptBy(h) ==
    LET args == handlers[h].calls[handlers[h].i].args
        old == BoardOf(battlefield, args.playerName)
        new == BoardOf(battlefield', args.playerName)
        index == FindByName(old, args.cardName)
    IN /\ \A q \in DOMAIN battlefield : q # args.playerName => q \in DOMAIN battlefield' /\ battlefield'[q] = battlefield[q]
       /\ args.action = "play" => Len(new) = Len(old) + 1 /\ SubSeq(new, 1, Len(old)) = old
       /\ (args.action = "remove" /\ index > 0) =>
             /\ Len(new) = Len(old) - 1
             /\ \A i \in 1..Len(new) : new[i] = IF i < index THEN old[i] ELSE old[i + 1]
       /\ (args.action = "update_status" /\ index > 0) =>
             /\ Len(new) = Len(old)
             /\ \A i \in 1..Len(old) :
                   /\ new[i].instanceId = old[i].instanceId
                   /\ new[i].tapped = old[i].tapped
                   /\ SeqRange(old[i].statuses) \subseteq SeqRange(new[i].statuses)
             /\ args.status \in SeqRange(new[index].statuses)

InterruptCancelsEarlier ==
    /\ [](\A j \in 1..Len(handlers) :
            (handlers[j].interrupted /\ handlers[j].pc = "done") => \A src \in sourcesRef : src.msg > j)
    /\ [][\A j \in 1..Len(handlers') :
            (handlers'[j].interrupted /\ handlers'[j].pc = "done" /\ (j > Len(handlers) \/ handlers[j].pc # "done"))
                => (sourcesRef' = {} /\ Max2(nextStartTimeRef', now') = now')]_vars

\* The manage_board call that handler h resumes has no effect on the store:
\* a play of a card the catalog lacks, a remove or update_status with no card
\* of the name on the player's board, or a player without a roster entry.
NoEffect(h) ==
    LET args == handlers[h].calls[handlers[h].i].args
        playerBoard == BoardOf(battlefield, args.playerName)
    IN \/ args.action = "play" /\ getCardByName(args.cardName) = "undefined"
       \/ args.action \in {"remove", "update_status"} /\ FindByName(playerBoard, args.cardName) = 0
       \/ \A i \in 1..Len(sessionPlayers) : sessionPlayers[i].name # args.playerName

\* C29: a manage_board call whose store operation does not take effect is
\* answered with a result that reports the failure, never with success.
FailureReported ==
    [][\A h \in 1..MaxMsgs :
          (ManageStep(h) /\ NoEffect(h)) => handlers'[h].responses[handlers[h].i].result # "success"]_vars

\* Every card on the battlefield, as <<player, position>>.
CardsOn(bf) == {<<q, i>> \in (DOMAIN bf) \X (1..(MaxMsgs * MaxCallsPerMsg)) : i <= Len(bf[q])}

\* The play of handler h: one card behind the cards the named player has, no
\* other change, if the catalog has the card; no change at all if not.
PlayStep(h) ==
    LET args == handlers[h].calls[handlers[h].i].args
        card == getCardByName(args.cardName)
        old == BoardOf(battlefield, args.playerName)
        new == BoardOf(battlefield', args.playerName)
    IN IF card = "undefined" THEN battlefield' = battlefield
       ELSE /\ DOMAIN battlefield' = DOMAIN battlefield \cup {args.playerName}
            /\ \A q \in DOMAIN battlefield : q # args.playerName => battlefield'[q] = battlefield[q]
            /\ Len(new) = Len(old) + 1
            /\ SubSeq(new, 1, Len(old)) = old
            /\ new[Len(new)].name = card
            /\ new[Len(new)].controller = args.playerName
            /\ new[Len(new)].tapped = FALSE
            /\ new[Len(new)].statuses = <<>>
            /\ \A x \in CardsOn(battlefield) : battlefield[x[1]][x[2]].instanceId # new[Len(new)].instanceId

\* C30: a play appends exactly one new untapped, status-free card to the named
\* player's board when the catalog lookup succeeds and leaves the battlefield
\* unchanged when it fails; all instance ids on the battlefield are pairwise
\* distinct and existing cards are unchanged.
PlayAppendsOne ==
    /\ [][\A h \in 1..MaxMsgs :
            (ManageStep(h) /\ handlers[h].calls[handlers[h].i].args.action = "play") => PlayStep(h)]_vars
    /\ [](\A x, y \in CardsOn(battlefield) :
            battlefield[x[1]][x[2]].instanceId = battlefield[y[1]][y[2]].instanceId => x = y)

\* The same card was played twice for Alice and the play of a card the catalog
\* lacks has been answered.
PlayAppendsOneWitness ==
    /\ "Alice" \in DOMAIN battlefield
    /\ Len(battlefield["Alice"]) = 2
    /\ battlefield["Alice"][1].name = battlefield["Alice"][2].name
    /\ battlefield["Alice"][1].instanceId # battlefield["Alice"][2].instanceId
    /\ \E h \in 1..Len(handlers) :
          /\ handlers[h].pc = "done"
          /\ handlers[h].calls[1].name = "manage_board"
          /\ handlers[h].calls[1].args.cardName = "Black Lotus"

\* The positions of playerBoard whose card has the name, whatever the casing.
Matches(playerBoard, cardName) ==
    {i \in 1..Len(playerBoard) : toLowerCase(playerBoard[i].name) = toLowerCase(cardName)}

\* The remove of handler h: the first card of the name leaves the named
\* player's board, every other card stays where it was in the order.
RemoveStep(h) ==
    LET args == handlers[h].calls[handlers[h].i].args
        old == BoardOf(battlefield, args.playerName)
        hits == Matches(old, args.cardName)
    IN IF hits = {} THEN battlefield' = battlefield
       ELSE LET first == CHOOSE i \in hits : \A j \in hits : i <= j
                new == BoardOf(battlefield', args.playerName)
            IN /\ DOMAIN battlefield' = DOMAIN battlefield
               /\ \A q \in DOMAIN battlefield : q # args.playerName => battlefield'[q] = battlefield[q]
               /\ Len(new) = Len(old) - 1
               /\ \A i \in 1..Len(new) : new[i] = IF i < first THEN old[i] ELSE old[i + 1]

\* C31: a remove deletes exactly one card, the first entry of the named
\* player's board whose name equals the given name case-insensitively, and
\* keeps every other entry in its order; with no match the battlefield is
\* unchanged.
RemoveDeletesFirst ==
    [][\A h \in 1..MaxMsgs :
          (ManageStep(h) /\ handlers[h].calls[handlers[h].i].args.action = "remove") => RemoveStep(h)]_vars

\* Alice had a Forest and two copies of Sol Ring; the remove by "SOL RING" has
\* been answered and the later copy is what is left behind the Forest.
RemoveDeletesFirstWitness ==
    /\ "Alice" \in DOMAIN battlefield
    /\ Len(battlefield["Alice"]) = 2
    /\ battlefield["Alice"][1].name = "Forest"
    /\ battlefield["Alice"][2].name = "Sol Ring"
    /\ battlefield["Alice"][2].instanceId = 3
    /\ \E h \in 1..Len(handlers) :
          /\ handlers[h].pc = "done"
          /\ Len(handlers[h].calls) = 2
          /\ handlers[h].calls[2].args.action = "remove"

\* How many statuses of the sequence carry the label.
CountLabel(statuses, label) == Cardinality({i \in 1..Len(statuses) : statuses[i] = label})

\* The update_status of handler h with a label that is not tap-like, on a
\* board that has the card: adding a label that is there changes no status,
\* removing a label leaves none of it.
LabelStep(h) ==
    LET args == handlers[h].calls[handlers[h].i].args
        old == BoardOf(battlefield, args.playerName)
        new == BoardOf(battlefield', args.playerName)
        index == FindByName(old, args.cardName)
    IN (index > 0 /\ args.action = "update_status") =>
          /\ Len(new) = Len(old)
          /\ (args.statusOperation \in {"", "add"} /\ CountLabel(old[index].statuses, args.status) > 0)
                => new[index].statuses = old[index].statuses
          /\ args.statusOperation \in {"", "add"} => CountLabel(new[index].statuses, args.status) = 1
          /\ args.statusOperation = "remove" => CountLabel(new[index].statuses, args.status) = 0

\* C32: no card holds two status effects with the same label: adding a label
\* already present, by hand or by a manage_board update_status call, leaves
\* the statuses unchanged, and removing a label leaves no status with it.
LabelsUnique ==
    /\ [](\A x \in CardsOn(battlefield) : \A st \in SeqRange(battlefield[x[1]][x[2]].statuses) :
            CountLabel(battlefield[x[1]][x[2]].statuses, st) = 1)
    /\ [][\A h \in 1..MaxMsgs : ManageStep(h) => LabelStep(h)]_vars
    /\ [][\A st \in {"Goaded", "Flying"} :
            /\ manualUpdateStatus("Alice", 1, st, "remove") => CountLabel(battlefield'["Alice"][1].statuses, st) = 0
            /\ manualUpdateStatus("Alice", 1, st, "add") => CountLabel(battlefield'["Alice"][1].statuses, st) = 1]_vars

\* The agent labelled the card "Goaded" in two messages, both answered, the
\* card carries that label once and "Flying", put by hand, behind it.
LabelsUniqueWitness ==
    /\ Len(handlers) = 2
    /\ \A h \in 1..2 :
          /\ handlers[h].pc = "done"
          /\ handlers[h].calls[Len(handlers[h].calls)].args.status = "Goaded"
          /\ handlers[h].calls[Len(handlers[h].calls)].args.statusOperation = "add"
    /\ "Alice" \in DOMAIN battlefield
    /\ Len(battlefield["Alice"]) = 1
    /\ battlefield["Alice"][1].statuses = <<"Goaded", "Flying">>

\* C33: when the spoke's channel to the hub opens and the spoke's local media
\* stream has been acquired by then, exactly one call carrying that stream is
\* initiated to the hub.
CallOnOpen ==
    [][(spokeConnOpen /\ spoke.localStream = 1) => spoke'.calls = spoke.calls + 1]_vars

\* C34: when the identity the hub asked for is taken, the hub tries again with
\* a fresh identity and eventually publishes an assigned id.
TakenIdentityRetried == (hubError = NetworkError("unavailable-id")) ~> (peerId # <<>>)

\* C35: a connection attempt of a spoke does not stay in Connecting: unless the
\* channel opens, the badge eventually shows the advice to check the room id.
UnansweredSurfaces == (spoke.conn = "connecting") ~> (spoke.conn = "open" \/ StatusBadge = CheckRoomId)

\* C36: a peer whose data channel is open while the roster is non-empty
\* eventually receives a GAME_STATE snapshot, unless its channel closes.
OpenPeerGetsSnapshot ==
    \A p \in PeerIds, n \in 1..MaxConns :
        ([peer |-> p, conn |-> n] \in openConns /\ Len(sessionPlayers) > 0)
            ~> (n \in DOMAIN inbox \/ [peer |-> p, conn |-> n] \notin openConns)

\* C37: every GAME_STATE snapshot that is broadcast on an open channel holds a
\* life entry for every player of the roster it carries.
SnapshotHasLife ==
    [][\A i \in 1..Len(EffectPayloads) :
          (\E j \in 1..Len(connections') : IsOpen(connections'[j], openConns')) =>
              \A pl \in Names(EffectPayloads[i].players) : pl \in DOMAIN EffectPayloads[i].currentLife]_vars

\* The handler h resumes from the save of a set_game_format or set_custom_rules
\* call; h is the latest message and no other save is under way.
SettingsStep(h, name) ==
    /\ h = Len(handlers)
    /\ handlers[h].pc = "db"
    /\ \A g \in 1..Len(handlers) : g # h => handlers[g].pc # "db"
    /\ handlers[h].calls[handlers[h].i].name = name
    /\ storeResolved(h)

\* C38: the persisted settings hold the most recently set format together with
\* the most recently set rules: a tool call that sets one field persists the
\* other field as it was last set, not as it was when the session connected.
SettingsKeepOtherField ==
    [][\A h \in 1..MaxMsgs :
          /\ SettingsStep(h, "set_game_format") => savedSettings'.customRules = customRules
          /\ SettingsStep(h, "set_custom_rules") => savedSettings'.format = gameFormat]_vars

\* The first call of the message of handler g is a registration.
Registers(g) == handlers[g].calls[1].name = "register_players"

\* The registration of handler h completes after a registration issued later,
\* that of a later message, has completed.
StaleRegisterStep(h) ==
    /\ h \in 1..Len(handlers)
    /\ handlers[h].pc = "db"
    /\ handlers[h].i = 1
    /\ Registers(h)
    /\ \E g \in (h + 1)..Len(handlers) : Registers(g) /\ handlers[g].i > 1
    /\ storeResolved(h)

====
